---- MODULE Spec2Model ----
(***************************************************************************)
(* Verification model of the PyPSA-Earth helper scripts:                   *)
(*   scripts/_helpers.py               locate_bus, create_network_topology *)
(*   scripts/add_extra_components.py   set_length_based_efficiency        *)
(*                                                                         *)
(* Each function is a terminating, single-threaded transformation, so it   *)
(* has a specification of its own: Init draws the call's inputs from       *)
(* bounded sets and one action performs the call.                          *)
(*   SpecLocate    locate_bus                                              *)
(*   SpecTopology  create_network_topology                                 *)
(*   SpecEff       set_length_based_efficiency                             *)
(*                                                                         *)
(* Strings are sequences of characters (region identifiers) or of          *)
(* character codes (bus names, where the code compares them with <).       *)
(* Floats are modelled as exact rationals [n, d] in lowest terms.          *)
(***************************************************************************)
EXTENDS Integers, Sequences, FiniteSets, TLC

VARIABLES
    \* locate_bus
    gdf,            \* region table after loading: rows [id, geometry], column col
    co,             \* scope string
    coords,         \* the point [x, y]
    lb_ret,         \* outcome of the call
    \* create_network_topology
    lines,          \* n.lines rows [bus0, bus1, length]
    links,          \* n.links rows [bus0, bus1, length, carrier, underwater_fraction]
    uf_column,      \* "underwater_fraction" in n.links.columns
    topo,           \* returned DataFrame: sequence of rows
    topo_pc,
    bidirectional,
    \* set_length_based_efficiency
    n_links,        \* n.links: sequence of link records
    n_cols,         \* which of the columns bus2, efficiency2 n.links has
    config,         \* config["sector"]["transmission_efficiency"][carrier]
    carrier,        \* the carrier argument
    eff_pc,
    \* three_2_two_digits_country, two_2_three_digits_country
    cc_in,          \* the code X
    cc_two,         \* three_2_two_digits_country(X)
    cc_three,       \* two_2_three_digits_country of that
    cc_pc,
    \* create_country_list
    cl_input,       \* the input list
    iso_coding,
    cl_result,      \* full_codes_list as returned
    cl_pc,
    \* get_gadm_layer
    country_layers, \* per country of country_list: number of layers of its file
    req_layer_id,   \* the layer_id argument as passed
    layer_id,       \* the local layer_id, which the loop may reassign
    code_layers,    \* code_layer selected for each country so far
    \* attach_stores
    n_buses,        \* n.buses: rows [name, carrier]
    n_stores,       \* n.stores: rows [name, bus, carrier]
    s_links,        \* n.links: rows [name, bus0, bus1, carrier]
    n_generators,   \* n.generators: rows [name, bus, carrier]
    ext_stores,     \* config electricity.extendable_carriers.Store
    csp_advanced,   \* "csp" is a renewable carrier and csp_model is "advanced"
    st_pc,
    \* unify_protected_shape_areas
    shp_files,      \* number of .shp files among snakemake.input
    shapes,         \* geometries read from the files
    unified,        \* outcome of the call
    \* two_digits_2_name_country
    nm_code,        \* two_code_country
    nm_string,      \* name_string
    no_comma,
    remove_start_words,
    nm_out,         \* the name returned
    nm_pc,
    \* download_gadm and the reads of get_gadm_layer
    dl_fs,          \* per country: state of the zip and of the gpkg on disk
    dl_proc,        \* per invocation: position, arguments, what it did
    dl_parallel,    \* invocations may overlap
    dl_calls,       \* invocations started
    dl_downloads,   \* requests sent to the GADM server
    dl_returns,     \* (country_code, value returned) of the calls so far
    \* locate_bus, up to the scope filter
    ld_way,         \* how the arguments make it obtain the table
    ld_raw,         \* the codes of the table as stored
    ld_co,          \* the co argument
    ld_out,         \* column used, codes after loading, candidates, or error
    \* the script of add_extra_components.py
    n_lines,        \* n.lines: rows [name, bus0, bus1, length]
    n_storage_units, \* n.storage_units: rows [name, bus, carrier]
    ext_storage_units, \* config electricity.extendable_carriers.StorageUnit
    ext_links,      \* config electricity.extendable_carriers.Link
    pipe_config,    \* config sector.transmission_efficiency["H2 pipeline"]
    su_pc,          \* attach_storageunits
    hp_ret          \* attach_hydrogen_pipelines: how the call ended

locVars == <<gdf, co, coords, lb_ret>>
topoVars == <<lines, links, uf_column, topo, topo_pc, bidirectional>>
effVars == <<n_links, n_cols, config, carrier, eff_pc>>
countryVars == <<cc_in, cc_two, cc_three, cc_pc, cl_input, iso_coding, cl_result, cl_pc>>
gadmVars == <<country_layers, req_layer_id, layer_id, code_layers>>
storeVars == <<n_buses, n_stores, s_links, n_generators, ext_stores, csp_advanced, st_pc>>
naturaVars == <<shp_files, shapes, unified>>
nameVars == <<nm_code, nm_string, no_comma, remove_start_words, nm_out, nm_pc>>
dlVars == <<dl_fs, dl_proc, dl_parallel, dl_calls, dl_downloads, dl_returns>>
loadVars == <<ld_way, ld_raw, ld_co, ld_out>>
mainVars == <<n_lines, n_storage_units, ext_storage_units, ext_links,
              pipe_config, su_pc, hp_ret>>
restVars == <<nameVars, dlVars, loadVars, mainVars>>

vars == <<locVars, topoVars, effVars, countryVars, gadmVars, storeVars, naturaVars,
          restVars>>

(***************************************************************************)
(* Bounds                                                                  *)
(***************************************************************************)
MaxRegions == 3     \* rows of the region table
MaxX == 6           \* x coordinate of the point ranges over 0..MaxX
MaxEdges == 3       \* rows of n.lines and n.links together
MaxNLinks == 2      \* rows of n.links in set_length_based_efficiency

(***************************************************************************)
(* Generic helpers                                                         *)
(***************************************************************************)
Abs(i) == IF i < 0 THEN -i ELSE i

Min2(a, b) == IF a < b THEN a ELSE b

Max2(a, b) == IF a < b THEN b ELSE a

SeqsUpTo(S, n) == UNION {[1..k -> S] : k \in 0..n}

\* python `sub in s` / pandas Series.str.contains for a literal pattern
StrContains(s, sub) ==
    \E i \in 0..(Len(s) - Len(sub)) : SubSeq(s, i + 1, i + Len(sub)) = sub

(***************************************************************************)
(* Geometry (shapely): regions are axis-aligned rectangles                 *)
(* [x0, x1] x [y0, y1]; contains() is true of interior points only,        *)
(* distance() is the Euclidean distance to the closed rectangle.  The      *)
(* code only compares distances (min), so the model keeps their squares.   *)
(***************************************************************************)
GeomContains(g, p) ==
    /\ g.x0 < p.x /\ p.x < g.x1
    /\ g.y0 < p.y /\ p.y < g.y1

AxisGap(lo, hi, v) == Max2(Max2(lo - v, v - hi), 0)

Distance2(g, p) ==
    AxisGap(g.x0, g.x1, p.x) * AxisGap(g.x0, g.x1, p.x)
  + AxisGap(g.y0, g.y1, p.y) * AxisGap(g.y0, g.y1, p.y)

Rect(x0, x1, y0, y1) == [x0 |-> x0, x1 |-> x1, y0 |-> y0, y1 |-> y1]

GeomPool == { Rect(0, 3, 0, 2), Rect(1, 4, 0, 2), Rect(2, 5, 0, 2), Rect(0, 5, 2, 4) }

IdPool == { <<"M", "A", "1">>, <<"M", "A", "2">>, <<"N", "G", "1">> }

ScopePool == { <<"M", "A">>, <<"Z", "A">> }

PointPool == [x : 0..MaxX, y : {1, 3}]

RegionRows == [id : IdPool, geometry : GeomPool]

(***************************************************************************)
(* locate_bus                                                              *)
(***************************************************************************)
NoRet == [kind |-> "none", value |-> <<>>, msg |-> ""]

Return(v) == [kind |-> "return", value |-> v, msg |-> ""]

Raise(m) == [kind |-> "ValueError", value |-> <<>>, msg |-> m]

\* pandas Series.item(): the single element, ValueError for any other size
Item(s) ==
    IF Len(s) = 1 THEN Return(s[1].id)
    ELSE Raise("can only convert an array of size 1 to a Python scalar")

\* gdf[gdf[col].str.contains(co)]
ScopeFilter(table, scope) ==
    SelectSeq(table, LAMBDA r : StrContains(r.id, scope))

ContainsFilter_boundary(table, p) ==
    SelectSeq(table, LAMBDA r : Distance2(r.geometry, p) = 0)

\* gdf_co[gdf_co.contains(point)]
ContainsFilter(table, p) ==
    SelectSeq(table, LAMBDA r : GeomContains(r.geometry, p))

RECURSIVE MinIndexFrom(_, _, _, _)
MinIndexFrom(table, p, i, best) ==
    IF i > Len(table) THEN best
    ELSE IF Distance2(table[i].geometry, p) < Distance2(table[best].geometry, p)
         THEN MinIndexFrom(table, p, i + 1, i)
         ELSE MinIndexFrom(table, p, i + 1, best)

MinGeometry_first(table, p) == table[1].geometry

\* python min(seq, key=point.distance): the first element of least key
MinGeometry(table, p) == table[MinIndexFrom(table, p, 2, 1)].geometry

\* the except branch: gdf_co[gdf_co.geometry == min(...)][col].item()
NearestFallback(gdf_co, p) ==
    IF Len(gdf_co) = 0 THEN Raise("min() arg is an empty sequence")
    ELSE Item(SelectSeq(gdf_co, LAMBDA r : r.geometry = MinGeometry(gdf_co, p)))

LocateBusResult(table, scope, p) ==
    LET gdf_co == ScopeFilter(table, scope)
        hits == ContainsFilter(gdf_co, p)
    IN  IF Len(hits) = 1 THEN Item(hits)
        ELSE NearestFallback(gdf_co, p)

locate_bus ==
    /\ lb_ret.kind = "none"
    /\ lb_ret' = LocateBusResult(gdf, co, coords)
    /\ UNCHANGED <<gdf, co, coords>>
    /\ UNCHANGED <<topoVars, effVars, countryVars, gadmVars, storeVars, naturaVars,
                   restVars>>

(***************************************************************************)
(* Numbers: floats as exact rationals [n, d], d > 0, in lowest terms;      *)
(* NaN (a missing cell) is the pair with d = 0.                            *)
(***************************************************************************)
RECURSIVE GCD(_, _)
GCD(a, b) == IF b = 0 THEN a ELSE GCD(b, a % b)

Frac(n, d) ==
    LET g == GCD(Abs(n), d)
    IN  [n |-> n \div g, d |-> d \div g]

Whole(i) == [n |-> i, d |-> 1]

NaN == [n |-> 0, d |-> 0]

IsNaN(v) == v.d = 0

FracAdd(a, b) == Frac(a.n * b.d + b.n * a.d, a.d * b.d)

FracMul(a, b) == Frac(a.n * b.n, a.d * b.d)

FracLess(a, b) == a.n * b.d < b.n * a.d

RECURSIVE FracSum(_)
FracSum(s) == IF Len(s) = 0 THEN Whole(0) ELSE FracAdd(Head(s), FracSum(Tail(s)))

\* pandas GroupBy.mean(): arithmetic mean of the group's values
FracMean(s) == LET t == FracSum(s) IN Frac(t.n, t.d * Len(s))

\* DataFrame.fillna(0)
FillNa(v) == IF IsNaN(v) THEN Whole(0) ELSE v

(***************************************************************************)
(* Bus names are strings, compared by the code with <: sequences of        *)
(* character codes in lexicographic order ("10" < "9").                    *)
(***************************************************************************)
LexLess(a, b) ==
    \E i \in 1..(Min2(Len(a), Len(b)) + 1) :
        /\ \A k \in 1..(i - 1) : a[k] = b[k]
        /\ \/ i > Len(a) /\ i <= Len(b)
           \/ i <= Len(a) /\ i <= Len(b) /\ a[i] < b[i]

BusNames == { <<57>>, <<49, 48>> }      \* "9", "10"

LinePool == [bus0 : BusNames, bus1 : BusNames, length : {Whole(10), Whole(30)}]

LinkPool(ufs) ==
    [bus0 : BusNames, bus1 : BusNames, length : {Whole(20)},
     carrier : {"DC", "H2 pipeline"}, underwater_fraction : ufs]

prefix == <<80>>            \* "P"

connector == <<60, 62>>     \* "<>"

(***************************************************************************)
(* create_network_topology                                                 *)
(***************************************************************************)
\* the "temporary fix": n.links["underwater_fraction"] = None | 0.0
LinksWithColumn(has_col, lks) ==
    IF has_col THEN lks
    ELSE [i \in 1..Len(lks) |-> [lks[i] EXCEPT !.underwater_fraction = Whole(0)]]

LineAttrs(l) ==
    [bus0 |-> l.bus0, bus1 |-> l.bus1, length |-> l.length,
     underwater_fraction |-> NaN]

LinkAttrs(l) ==
    [bus0 |-> l.bus0, bus1 |-> l.bus1, length |-> l.length,
     underwater_fraction |-> l.underwater_fraction]

MapSeq(F(_), s) == [i \in 1..Len(s) |-> F(s[i])]

FillRow(c) ==
    [c EXCEPT !.length = FillNa(@), !.underwater_fraction = FillNa(@)]

DCLinks_all(lks) == lks

\* n.links.loc[n.links.carrier == "DC", lk_attrs]
DCLinks(lks) == SelectSeq(lks, LAMBDA l : l.carrier = "DC")

\* pd.concat([n.lines[ln_attrs], n.links.loc[...]]).fillna(0)
Candidates(lns, lks) ==
    MapSeq(FillRow, MapSeq(LineAttrs, lns) \o MapSeq(LinkAttrs, DCLinks(lks)))

SwapBuses(c) == [c EXCEPT !.bus0 = c.bus1, !.bus1 = c.bus0]

NormalizeOrder_noswap(cands) == cands

\* positive_order rows first, then the others with bus0 and bus1 renamed
NormalizeOrder(cands) ==
    SelectSeq(cands, LAMBDA c : LexLess(c.bus0, c.bus1))
    \o MapSeq(SwapBuses, SelectSeq(cands, LAMBDA c : ~LexLess(c.bus0, c.bus1)))

make_index_swapped(c) == prefix \o c.bus1 \o connector \o c.bus0

make_index(c) == prefix \o c.bus0 \o connector \o c.bus1

KeyLess(k1, k2) ==
    \/ LexLess(k1[1], k2[1])
    \/ k1[1] = k2[1] /\ LexLess(k1[2], k2[2])

\* groupby sorts the group keys
RECURSIVE SortKeys(_)
SortKeys(K) ==
    IF K = {} THEN <<>>
    ELSE LET m == CHOOSE k \in K : \A o \in K \ {k} : KeyLess(k, o)
         IN  <<m>> \o SortKeys(K \ {m})

GroupRow(cands, key) ==
    LET grp == SelectSeq(cands, LAMBDA c : c.bus0 = key[1] /\ c.bus1 = key[2])
        r == [bus0 |-> key[1], bus1 |-> key[2],
              length |-> FracMean(MapSeq(LAMBDA c : c.length, grp)),
              underwater_fraction |->
                  FracMean(MapSeq(LAMBDA c : c.underwater_fraction, grp))]
    IN  [index |-> make_index(r), bus0 |-> r.bus0, bus1 |-> r.bus1,
         length |-> r.length, underwater_fraction |-> r.underwater_fraction]

\* candidates.groupby(["bus0", "bus1"], as_index=False).mean(), indexed;
\* no candidate gives the table without rows
GroupByMean(cands) ==
    LET keys == SortKeys({<<cands[i].bus0, cands[i].bus1>> : i \in 1..Len(cands)})
    IN  [i \in 1..Len(keys) |-> GroupRow(cands, keys[i])]

ReverseRow_keepindex(r) == [r EXCEPT !.bus0 = r.bus1, !.bus1 = r.bus0]

\* topo_reverse: columns renamed, index recomputed
ReverseRow(r) ==
    [r EXCEPT !.bus0 = r.bus1, !.bus1 = r.bus0,
              !.index = make_index(SwapBuses(r))]

Topology(lns, lks, bidir) ==
    LET t == GroupByMean(NormalizeOrder(Candidates(lns, lks)))
    IN  IF bidir THEN t ELSE t \o MapSeq(ReverseRow, t)

create_network_topology(bidir) ==
    /\ topo_pc = "start"
    /\ bidirectional' = bidir
    /\ links' = LinksWithColumn(uf_column, links)
    /\ uf_column' = TRUE
    /\ topo' = Topology(lines, links', bidir)
    /\ topo_pc' = "done"
    /\ UNCHANGED lines
    /\ UNCHANGED <<locVars, effVars, countryVars, gadmVars, storeVars, naturaVars,
                   restVars>>

(***************************************************************************)
(* set_length_based_efficiency                                             *)
(***************************************************************************)
Get_zero(d, key, default) == IF key \in DOMAIN d THEN d[key] ELSE Whole(0)

\* python dict.get(key, default)
Get(d, key, default) == IF key \in DOMAIN d THEN d[key] ELSE default

removesuffix_slice(s, suf) ==
    SubSeq(s, 1, Max2(Len(s) - Len(suf), 0))

\* python str.removesuffix
removesuffix(s, suf) ==
    IF Len(suf) > 0 /\ Len(s) >= Len(suf)
       /\ SubSeq(s, Len(s) - Len(suf) + 1, Len(s)) = suf
    THEN SubSeq(s, 1, Len(s) - Len(suf))
    ELSE s

\* b ** k for a whole exponent k >= 0 (python: x ** 0 = 1, also for x = 0)
RECURSIVE FracPow(_, _)
FracPow(b, k) == IF k = 0 THEN Whole(1) ELSE FracMul(b, FracPow(b, k - 1))

\* length / 1e3; the lengths of the model are whole multiples of 1000
PerThousand(length) == length \div 1000

LinkEfficiency_nostatic(l, efficiency_static, efficiency_per_1000km) ==
    FracPow(efficiency_per_1000km, PerThousand(l.length))

LinkEfficiency_cumulative(l, efficiency_static, efficiency_per_1000km) ==
    FracMul(l.efficiency,
            FracMul(efficiency_static,
                    FracPow(efficiency_per_1000km, PerThousand(l.length))))

LinkEfficiency_product(l, efficiency_static, efficiency_per_1000km) ==
    FracMul(efficiency_static,
            FracMul(efficiency_per_1000km, Whole(PerThousand(l.length))))

\* efficiency_static * efficiency_per_1000km ** (length / 1e3)
LinkEfficiency(l, efficiency_static, efficiency_per_1000km) ==
    FracMul(efficiency_static,
            FracPow(efficiency_per_1000km, PerThousand(l.length)))

\* -compression_per_1000km * length / 1e3
LinkEfficiency2(l, compression_per_1000km) ==
    Frac(-(compression_per_1000km.n * l.length), compression_per_1000km.d * 1000)

Compresses_nonzero(compression_per_1000km) == compression_per_1000km.n # 0

\* compression_per_1000km > 0
Compresses(compression_per_1000km) == compression_per_1000km.n > 0

IsCarrier_any(l, c) == TRUE

\* n.links.carrier == carrier
IsCarrier(l, c) == l.carrier = c

bus_suffix == <<" ", "H", "2">>

NoBus == <<"nan">>

SetLink(l, cfg) ==
    LET efficiency_static == Get(cfg, "efficiency_static", Whole(1))
        efficiency_per_1000km == Get(cfg, "efficiency_per_1000km", Whole(1))
        compression_per_1000km == Get(cfg, "compression_per_1000km", Whole(0))
        l1 == [l EXCEPT !.efficiency =
                   LinkEfficiency(l, efficiency_static, efficiency_per_1000km)]
    IN  IF Compresses(compression_per_1000km)
        THEN [l1 EXCEPT !.bus2 = removesuffix(l.bus0, bus_suffix),
                        !.efficiency2 = LinkEfficiency2(l, compression_per_1000km)]
        ELSE l1

\* the .loc assignments to bus2 and efficiency2 create a missing column
ColumnsAfter(cols, cfg) ==
    IF Compresses(Get(cfg, "compression_per_1000km", Whole(0)))
    THEN cols \cup {"bus2", "efficiency2"}
    ELSE cols

\* one call; the caller may repeat it with the same arguments
set_length_based_efficiency ==
    /\ eff_pc \in {"start", "done"}
    /\ n_links' = [i \in 1..Len(n_links) |->
                      IF IsCarrier(n_links[i], carrier)
                      THEN SetLink(n_links[i], config)
                      ELSE n_links[i]]
    /\ n_cols' = ColumnsAfter(n_cols, config)
    /\ eff_pc' = IF eff_pc = "start" THEN "done" ELSE "again"
    /\ UNCHANGED <<config, carrier>>
    /\ UNCHANGED <<locVars, topoVars, countryVars, gadmVars, storeVars, naturaVars,
                   restVars>>

ConfigKeys == {"efficiency_static", "efficiency_per_1000km", "compression_per_1000km"}

FullConfigs ==
    [efficiency_static : {Whole(0), Frac(98, 100)},
     efficiency_per_1000km : {Whole(0), Frac(95, 100), Whole(1)},
     compression_per_1000km : {Frac(-1, 100), Whole(0), Frac(1, 100)}]

\* a configuration may lack any of the three coefficients
ConfigPool == {[k \in K |-> c[k]] : K \in SUBSET ConfigKeys, c \in FullConfigs}

\* a link with its attributes before the call: efficiency at the default 1
\* or set earlier; bus2 and efficiency2 empty, or set earlier when n.links
\* has these columns
NLinkPool(cols) ==
    { l \in [bus0 : {<<"A", " ", "H", "2">>, <<"B">>},
             carrier : {"H2 pipeline", "DC"},
             length : {0, 1000, 2000},
             efficiency : {Whole(1), Frac(1, 2)},
             bus2 : {NoBus, <<"C">>},
             efficiency2 : {NaN, Frac(-1, 50)}] :
        /\ (l.bus2 = NoBus) = (l.efficiency2 = NaN)
        /\ (l.bus2 # NoBus) = (cols # {} /\ l.efficiency = Frac(1, 2)) }

(***************************************************************************)
(* Country codes: _helpers.py, two_2_three_digits_country,                 *)
(* three_2_two_digits_country and create_country_list.  A code is the       *)
(* sequence of its characters.                                              *)
(***************************************************************************)
MaxInput == 3

Range(s) == {s[i] : i \in DOMAIN s}

\* rows of the country_converter table: a one-to-one ISO2 / ISO3 pairing
CocoTable ==
    { [ISO2 |-> <<"N", "G">>, ISO3 |-> <<"N", "G", "A">>],
      [ISO2 |-> <<"S", "N">>, ISO3 |-> <<"S", "E", "N">>],
      [ISO2 |-> <<"G", "M">>, ISO3 |-> <<"G", "M", "B">>] }

NotFound == <<"n", "o", "t", " ", "f", "o", "u", "n", "d">>

\* coco.convert without src: the source classification is taken from the
\* length of the name, a name of another length is matched as a country
\* name (none of the codes used here is one)
InputFormat(name) ==
    IF Len(name) = 2 THEN "ISO2"
    ELSE IF Len(name) = 3 THEN "ISO3"
    ELSE "regex"

coco_convert(name, to) ==
    LET src == InputFormat(name)
        matches == IF src = "regex" THEN {}
                   ELSE {r \in CocoTable : r[src] = name}
    IN IF matches = {} THEN NotFound
       ELSE (CHOOSE r \in matches : TRUE)[to]

SN_GM == <<"S", "N", "-", "G", "M">>
SEN_GMB == <<"S", "E", "N", "-", "G", "M", "B">>

RECURSIVE two_2_three_digits_country(_)
two_2_three_digits_country(two_code_country) ==
    IF two_code_country = SN_GM
    THEN two_2_three_digits_country(<<"S", "N">>) \o <<"-">>
         \o two_2_three_digits_country(<<"G", "M">>)
    ELSE coco_convert(two_code_country, "ISO3")

\* the same without the branch for the composite code
three_2_two_digits_country_nobranch(three_code_country) ==
    coco_convert(three_code_country, "ISO2")

RECURSIVE three_2_two_digits_country(_)
three_2_two_digits_country(three_code_country) ==
    IF three_code_country = SEN_GMB
    THEN three_2_two_digits_country(<<"S", "N">>) \o <<"-">>
         \o three_2_two_digits_country(<<"G", "M">>)
    ELSE coco_convert(three_code_country, "ISO2")

\* codes handed to the conversion: the codes of the table, the composite
\* code and a code the table does not have
ThreeCodePool ==
    {r.ISO3 : r \in CocoTable} \cup {SEN_GMB, <<"X", "X", "X">>}

to_two ==
    /\ cc_pc = "start"
    /\ cc_two' = three_2_two_digits_country(cc_in)
    /\ cc_pc' = "two"
    /\ UNCHANGED <<cc_in, cc_three, cl_input, iso_coding, cl_result, cl_pc>>
    /\ UNCHANGED <<locVars, topoVars, effVars, gadmVars, storeVars, naturaVars,
                   restVars>>

to_three ==
    /\ cc_pc = "two"
    /\ cc_three' = two_2_three_digits_country(cc_two)
    /\ cc_pc' = "done"
    /\ UNCHANGED <<cc_in, cc_two, cl_input, iso_coding, cl_result, cl_pc>>
    /\ UNCHANGED <<locVars, topoVars, effVars, gadmVars, storeVars, naturaVars,
                   restVars>>

\* the regions configuration read by read_osm_config: continents in the
\* order of the file, each with its country codes, and named regions
Earth == <<"E", "a", "r", "t", "h">>
Africa == <<"A", "f", "r", "i", "c", "a">>
Asia == <<"A", "s", "i", "a">>
TEST == <<"T", "E", "S", "T">>

continents == <<Africa, Asia>>

world_iso ==
    (Africa :> << <<"N", "G">>, <<"Z", "A">> >>) @@ (Asia :> << <<"I", "N">> >>)

continent_regions ==
    (TEST :> << <<"N", "G">>, <<"B", "J">> >>)

RECURSIVE Flatten(_)
Flatten(ss) ==
    IF ss = <<>> THEN <<>> ELSE Head(ss) \o Flatten(Tail(ss))

\* codes_list of one input value
codes_list(value1) ==
    IF value1 = Earth
    THEN Flatten([i \in DOMAIN continents |-> world_iso[continents[i]]])
    ELSE IF value1 \in DOMAIN world_iso THEN world_iso[value1]
    ELSE IF value1 \in DOMAIN continent_regions THEN continent_regions[value1]
    ELSE <<value1>>

full_codes_list(input) ==
    Flatten([i \in DOMAIN input |-> codes_list(input[i])])

filter_codes(c_list, iso) ==
    IF iso THEN SelectSeq(c_list, LAMBDA c : Len(c) = 2) ELSE c_list

\* the list kept as it is, duplicates included
ListOfSet_keep(l) == {l}

\* list(set(l)): the elements of l once each, in an order the language
\* does not fix
ListOfSet(l) ==
    LET S == Range(l)
    IN {u \in [1..Cardinality(S) -> S] : Range(u) = S}

InputPool ==
    {<<"N", "G">>, <<"Z", "A">>, SN_GM, Earth, Africa, TEST}

create_country_list ==
    /\ cl_pc = "start"
    /\ \E u \in ListOfSet(full_codes_list(cl_input)) :
          cl_result' = filter_codes(u, iso_coding)
    /\ cl_pc' = "done"
    /\ UNCHANGED <<cl_input, iso_coding, cc_in, cc_two, cc_three, cc_pc>>
    /\ UNCHANGED <<locVars, topoVars, effVars, gadmVars, storeVars, naturaVars,
                   restVars>>

(***************************************************************************)
(* _helpers.py, get_gadm_layer: the layer chosen for each country          *)
(***************************************************************************)
MaxCountries == 2
MaxLayers == 3
MaxLayerId == 4

\* 0 | x on integers
BitOrZero(x) == x

\* np.mod(a, n) for n > 0: the result has the sign of n
np_mod(a, n) == a % n

\* layer_id < 0 | layer_id >= len(list_layers): | binds tighter than the
\* comparisons, so this is the chain
\* layer_id < (0 | layer_id) >= len(list_layers)
OutOfRange(lid, n_layers) ==
    /\ lid < BitOrZero(lid)
    /\ BitOrZero(lid) >= n_layers

\* one pass of the loop over country_list, up to the choice of layer_name
get_gadm_layer ==
    /\ Len(code_layers) < Len(country_layers)
    /\ LET n_layers == country_layers[Len(code_layers) + 1]
           lid == IF OutOfRange(layer_id, n_layers)
                  THEN n_layers - 1 ELSE layer_id
       IN /\ layer_id' = lid
          /\ code_layers' = Append(code_layers, np_mod(lid, n_layers))
    /\ UNCHANGED <<country_layers, req_layer_id>>
    /\ UNCHANGED <<locVars, topoVars, effVars, countryVars, storeVars, naturaVars,
                   restVars>>

(***************************************************************************)
(* add_extra_components.py, attach_stores.  The network is the record of   *)
(* its buses, stores, links and generators; n.carriers and the cost         *)
(* attributes of the added components are left out.                         *)
(***************************************************************************)
MaxBuses == 2

battery_suffix == <<" ", "b", "a", "t", "t", "e", "r", "y">>
csp_suffix == <<" ", "c", "s", "p">>

\* n.madd(class, names, ...): one row per name, appended to the table
madd(table, rows) == table \o rows

H2Bus(b) == [name |-> b \o bus_suffix, carrier |-> "H2"]

H2Store(b) ==
    [name |-> b \o bus_suffix, bus |-> b \o bus_suffix, carrier |-> "H2"]

Electrolysis(b) ==
    [name |-> b \o bus_suffix \o <<" ", "E", "l", "e", "c", "t", "r", "o", "l", "y", "s", "i", "s">>,
     bus0 |-> b, bus1 |-> b \o bus_suffix, carrier |-> "H2 electrolysis"]

\* the fuel cell link drawn in the direction of the electrolysis
FuelCell_charging(b) ==
    [name |-> b \o bus_suffix \o <<" ", "F", "u", "e", "l", " ", "C", "e", "l", "l">>,
     bus0 |-> b, bus1 |-> b \o bus_suffix, carrier |-> "H2 fuel cell"]

FuelCell(b) ==
    [name |-> b \o bus_suffix \o <<" ", "F", "u", "e", "l", " ", "C", "e", "l", "l">>,
     bus0 |-> b \o bus_suffix, bus1 |-> b, carrier |-> "H2 fuel cell"]

BatteryBus(b) == [name |-> b \o battery_suffix, carrier |-> "battery"]

BatteryStore(b) ==
    [name |-> b \o battery_suffix, bus |-> b \o battery_suffix,
     carrier |-> "battery"]

Charger(b) ==
    [name |-> b \o battery_suffix \o <<" ", "c", "h", "a", "r", "g", "e", "r">>,
     bus0 |-> b, bus1 |-> b \o battery_suffix, carrier |-> "battery charger"]

Discharger(b) ==
    [name |-> b \o battery_suffix \o <<" ", "d", "i", "s", "c", "h", "a", "r", "g", "e", "r">>,
     bus0 |-> b \o battery_suffix, bus1 |-> b, carrier |-> "battery discharger"]

\* if "H2" in carriers
attach_H2(n, buses_i) ==
    [n EXCEPT
       !.buses = madd(@, [i \in DOMAIN buses_i |-> H2Bus(buses_i[i])]),
       !.stores = madd(@, [i \in DOMAIN buses_i |-> H2Store(buses_i[i])]),
       !.links = madd(madd(@, [i \in DOMAIN buses_i |-> Electrolysis(buses_i[i])]),
                      [i \in DOMAIN buses_i |-> FuelCell(buses_i[i])])]

\* if "battery" in carriers
attach_battery(n, buses_i) ==
    [n EXCEPT
       !.buses = madd(@, [i \in DOMAIN buses_i |-> BatteryBus(buses_i[i])]),
       !.stores = madd(@, [i \in DOMAIN buses_i |-> BatteryStore(buses_i[i])]),
       !.links = madd(madd(@, [i \in DOMAIN buses_i |-> Charger(buses_i[i])]),
                      [i \in DOMAIN buses_i |-> Discharger(buses_i[i])])]

\* n.generators.query("carrier == 'csp'").bus, in the order of the table
main_buses(generators) ==
    LET csp == SelectSeq(generators, LAMBDA g : g.carrier = "csp")
    IN [i \in DOMAIN csp |-> csp[i].bus]

\* the csp block: a bus, a store and a link per csp generator, and the
\* generator moved to the new bus
attach_csp(n) ==
    LET mb == main_buses(n.generators)
    IN [n EXCEPT
          !.buses = madd(@, [i \in DOMAIN mb |->
                        [name |-> mb[i] \o csp_suffix, carrier |-> "csp"]]),
          !.generators = [j \in DOMAIN @ |->
                        IF @[j].carrier = "csp"
                        THEN [@[j] EXCEPT !.bus = @ \o csp_suffix] ELSE @[j]],
          !.stores = madd(@, [i \in DOMAIN mb |->
                        [name |-> mb[i] \o csp_suffix,
                         bus |-> mb[i] \o csp_suffix, carrier |-> "csp"]]),
          !.links = madd(@, [i \in DOMAIN mb |->
                        [name |-> mb[i] \o csp_suffix,
                         bus0 |-> mb[i] \o csp_suffix, bus1 |-> mb[i],
                         carrier |-> "csp"]])]

attach_stores ==
    /\ st_pc = "start"
    /\ LET buses_i == [i \in DOMAIN n_buses |-> n_buses[i].name]
           n0 == [buses |-> n_buses, stores |-> n_stores, links |-> s_links,
                  generators |-> n_generators]
           n1 == IF "H2" \in ext_stores THEN attach_H2(n0, buses_i) ELSE n0
           n2 == IF "battery" \in ext_stores THEN attach_battery(n1, buses_i)
                 ELSE n1
           n3 == IF csp_advanced THEN attach_csp(n2) ELSE n2
       IN /\ n_buses' = n3.buses
          /\ n_stores' = n3.stores
          /\ s_links' = n3.links
          /\ n_generators' = n3.generators
    /\ st_pc' = "done"
    /\ UNCHANGED <<ext_stores, csp_advanced>>
    /\ UNCHANGED <<locVars, topoVars, effVars, countryVars, gadmVars, naturaVars,
                   restVars>>

\* the network handed to attach_stores: electrical buses with distinct
\* names, at most one generator, at most one link between them
StoreBusNames == {<<"a">>, <<"b">>, <<"c">>}

BusTables ==
    {t \in SeqsUpTo([name : StoreBusNames, carrier : {"AC"}], MaxBuses) :
        \A i, j \in DOMAIN t : t[i].name = t[j].name => i = j}

GeneratorTables(buses) ==
    {<<>>} \cup
    {<< [name |-> <<"g">>, bus |-> buses[i].name, carrier |-> c] >> :
        i \in DOMAIN buses, c \in {"csp", "solar"}}

LinkTables(buses) ==
    {<<>>} \cup
    {<< [name |-> <<"l">>, bus0 |-> buses[i].name, bus1 |-> buses[j].name,
         carrier |-> "DC"] >> : i, j \in DOMAIN buses}

(***************************************************************************)
(* build_natura_raster.py, unify_protected_shape_areas.  A geometry is     *)
(* what the function reads of it: whether it is null, whether it is valid, *)
(* and whether its zero-width buffer is valid.                              *)
(***************************************************************************)
MaxFiles == 2
MaxShapes == 3

NullGeom == [null |-> TRUE, is_valid |-> FALSE, buffer_valid |-> FALSE]

\* geometries of the shapefiles: null, valid, invalid with a valid
\* zero-width buffer, invalid with an invalid one
ShapePool ==
    {NullGeom} \cup
    {g \in [null : {FALSE}, is_valid : BOOLEAN, buffer_valid : BOOLEAN] :
        g.is_valid => g.buffer_valid}

\* [geom if geom.is_valid else geom.buffer(0) for geom in shape["geometry"]]
Repair(shape) ==
    [i \in DOMAIN shape |->
        IF shape[i].is_valid
        THEN [src |-> i, is_valid |-> TRUE, buffered |-> FALSE]
        ELSE [src |-> i, is_valid |-> shape[i].buffer_valid, buffered |-> TRUE]]

Raised(err) == [kind |-> "raise", error |-> err, members |-> <<>>]

\* unary_union(shape["geometry"]): the union of valid geometries; on an
\* invalid geometry GEOS either raises or returns a union built with it
UnaryUnion(geoms) ==
    {[kind |-> "union", error |-> "", members |-> geoms]} \cup
    IF \E i \in DOMAIN geoms : ~geoms[i].is_valid
    THEN {Raised("GEOSException")} ELSE {}

unify_protected_shape_areas ==
    /\ unified.kind = "start"
    /\ IF shp_files = 0
       THEN \* the loop body never runs and shape is not bound
            unified' = Raised("UnboundLocalError")
       ELSE IF \E i \in DOMAIN shapes : shapes[i].null
       THEN \* None has no attribute is_valid
            unified' = Raised("AttributeError")
       ELSE unified' \in UnaryUnion(Repair(shapes))
    /\ UNCHANGED <<shp_files, shapes>>
    /\ UNCHANGED <<locVars, topoVars, effVars, countryVars, gadmVars, storeVars,
                   restVars>>

(***************************************************************************)
(* _helpers.py, two_digits_2_name_country.  A name is the sequence of its  *)
(* characters.                                                             *)
(***************************************************************************)
MaxWords == 2

IsPrefix(p, t) == Len(p) <= Len(t) /\ SubSeq(t, 1, Len(p)) = p

\* str.find + 1: the first place where p occurs in t, 0 when it does not
Find(t, p) ==
    LET at == {i \in 1..(Len(t) - Len(p) + 1) : SubSeq(t, i, i + Len(p) - 1) = p}
    IN IF at = {} THEN 0 ELSE CHOOSE i \in at : \A j \in at : i <= j

\* t.split(d)
RECURSIVE Split(_, _)
Split(t, d) ==
    LET i == Find(t, d)
    IN IF i = 0 THEN <<t>>
       ELSE <<SubSeq(t, 1, i - 1)>> \o Split(SubSeq(t, i + Len(d), Len(t)), d)

Reverse(q) == [i \in DOMAIN q |-> q[Len(q) + 1 - i]]

\* d.join(parts)
RECURSIVE Join(_, _)
Join(parts, d) ==
    IF parts = <<>> THEN <<>>
    ELSE IF Len(parts) = 1 THEN parts[1]
    ELSE parts[1] \o d \o Join(Tail(parts), d)

\* t.replace(word, "", 1)
Replace1(t, word) ==
    LET i == Find(t, word)
    IN IF i = 0 THEN t
       ELSE SubSeq(t, 1, i - 1) \o SubSeq(t, i + Len(word), Len(t))

\* the loop over remove_start_words
RECURSIVE RemoveStart(_, _)
RemoveStart(full_name, words) ==
    IF words = <<>> THEN full_name
    ELSE RemoveStart(IF IsPrefix(Head(words), full_name)
                     THEN Replace1(full_name, Head(words)) ELSE full_name,
                     Tail(words))

DR_Congo == <<"D", "R", " ", "C", "o", "n", "g", "o">>
Congo_official == <<"D", "e", "m", "o", "c", "r", "a", "t", "i", "c", " ", "R", "e", "p", "u", "b", "l", "i", "c", " ", "o", "f", " ", "t", "h", "e", " ", "C", "o", "n", "g", "o">>
Congo_comma == <<"C", "o", "n", "g", "o", ",", " ", "T", "h", "e", " ", "D", "e", "m", "o", "c", "r", "a", "t", "i", "c", " ", "R", "e", "p", "u", "b", "l", "i", "c", " ", "o", "f">>
Nigeria == <<"N", "i", "g", "e", "r", "i", "a">>
Senegal == <<"S", "e", "n", "e", "g", "a", "l">>
Gambia == <<"G", "a", "m", "b", "i", "a">>
The == <<"T", "h", "e">>
Democratic == <<"D", "e", "m", "o", "c", "r", "a", "t", "i", "c">>
The_Democratic_Republic_of_Congo == <<"T", "h", "e", " ", "D", "e", "m", "o", "c", "r", "a", "t", "i", "c", " ", "R", "e", "p", "u", "b", "l", "i", "c", " ", "o", "f", " ", "C", "o", "n", "g", "o">>
Democratic_Republic_of_Congo == <<"D", "e", "m", "o", "c", "r", "a", "t", "i", "c", " ", "R", "e", "p", "u", "b", "l", "i", "c", " ", "o", "f", " ", "C", "o", "n", "g", "o">>

\* names of the converter: name_short and name_official as the docstring
\* gives them for CD, and "name_comma" for a classification that delivers
\* the comma form of the docstring's no_comma example
NameTable ==
    { [ISO2 |-> <<"C", "D">>, name_short |-> DR_Congo,
       name_official |-> Congo_official, name_comma |-> Congo_comma],
      [ISO2 |-> <<"N", "G">>, name_short |-> Nigeria,
       name_official |-> Nigeria, name_comma |-> Nigeria],
      [ISO2 |-> <<"S", "N">>, name_short |-> Senegal,
       name_official |-> Senegal, name_comma |-> Senegal],
      [ISO2 |-> <<"G", "M">>, name_short |-> Gambia,
       name_official |-> Gambia, name_comma |-> Gambia] }

\* coco.convert(two_code_country, to=name_string)
coco_name(code, to) ==
    LET matches == IF InputFormat(code) = "ISO2"
                   THEN {r \in NameTable : r.ISO2 = code} ELSE {}
    IN IF matches = {} THEN NotFound
       ELSE (CHOOSE r \in matches : TRUE)[to]

RECURSIVE two_digits_2_name_country(_, _, _, _)
two_digits_2_name_country(two_code_country, name_string, nc, words) ==
    IF two_code_country = SN_GM
    THEN two_digits_2_name_country(<<"S", "N">>, "name_short", FALSE, <<>>)
         \o <<"-">>
         \o two_digits_2_name_country(<<"G", "M">>, "name_short", FALSE, <<>>)
    ELSE LET full_name == coco_name(two_code_country, name_string)
             joined == IF nc THEN Join(Reverse(Split(full_name, <<",", " ">>)),
                                       <<" ">>)
                       ELSE full_name
         IN RemoveStart(joined, words)

name_country ==
    /\ nm_pc = "start"
    /\ nm_out' = two_digits_2_name_country(nm_code, nm_string, no_comma,
                                           remove_start_words)
    /\ nm_pc' = "done"
    /\ UNCHANGED <<nm_code, nm_string, no_comma, remove_start_words>>
    /\ UNCHANGED <<locVars, topoVars, effVars, countryVars, gadmVars,
                   storeVars, naturaVars, dlVars, loadVars, mainVars>>

NameCodePool == {r.ISO2 : r \in NameTable} \cup {SN_GM, <<"X", "X">>}

WordPool == {The, Democratic, DR_Congo}

(***************************************************************************)
(* _helpers.py, download_gadm, and the reads get_gadm_layer makes of the   *)
(* file it returns.  A file on disk is absent, partial (open for writing)  *)
(* or complete; an invocation is a record with its position in the code.   *)
(***************************************************************************)
MaxCalls == 3

Procs == {1, 2}

DlCountries == {<<"N", "G">>, <<"S", "N">>}

\* gadm_filename and the pair returned: the path of the gpkg under the
\* current directory, and the file name
gadm_filename(country_code) ==
    <<"g", "a", "d", "m", "3", "6", "_">>
        \o two_2_three_digits_country(country_code)

gadm_input_file_gpkg(country_code) ==
    <<"cwd", "data", "raw", "gadm", gadm_filename(country_code),
      gadm_filename(country_code) \o <<".", "g", "p", "k", "g">> >>

\* the download made whatever the state of the disk
NeedsDownload_always(exists, update) == TRUE

\* not path_exists(gadm_input_file_gpkg) or update is True
NeedsDownload(exists, update) == ~exists \/ update

DlFree(q) == dl_proc[q].pc \in {"idle", "done", "raised"}

dlFrame ==
    UNCHANGED <<locVars, topoVars, effVars, countryVars, gadmVars, storeVars,
                naturaVars, nameVars, loadVars, mainVars>>

\* a caller enters download_gadm(country_code, update)
dl_call(p, c, u) ==
    /\ DlFree(p)
    /\ dl_calls < MaxCalls
    /\ dl_parallel \/ \A q \in Procs : DlFree(q)
    /\ dl_proc' = [dl_proc EXCEPT ![p] =
           [pc |-> "check", country |-> c, update |-> u,
            existed |-> dl_fs[c].gpkg # "absent",
            downloaded |-> FALSE, extracted |-> FALSE]]
    /\ dl_calls' = dl_calls + 1
    /\ UNCHANGED <<dl_fs, dl_parallel, dl_downloads, dl_returns>>
    /\ dlFrame

\* if not path_exists(gadm_input_file_gpkg) or update is True
dl_check(p) ==
    /\ dl_proc[p].pc = "check"
    /\ dl_proc' = [dl_proc EXCEPT ![p].pc =
           IF NeedsDownload(dl_fs[dl_proc[p].country].gpkg # "absent",
                            dl_proc[p].update)
           THEN "open" ELSE "return"]
    /\ UNCHANGED <<dl_fs, dl_parallel, dl_calls, dl_downloads, dl_returns>>
    /\ dlFrame

\* requests.get(gadm_url) and open(gadm_input_file_zip, "wb"): the zip is
\* truncated; clash records that another invocation had it open
dl_open(p) ==
    /\ dl_proc[p].pc = "open"
    /\ LET c == dl_proc[p].country
       IN dl_fs' = [dl_fs EXCEPT ![c].zip = "partial",
                                 ![c].clash = @ \/ dl_fs[c].zip = "partial"]
    /\ dl_proc' = [dl_proc EXCEPT ![p].pc = "copy", ![p].downloaded = TRUE]
    /\ dl_downloads' = dl_downloads + 1
    /\ UNCHANGED <<dl_parallel, dl_calls, dl_returns>>
    /\ dlFrame

\* shutil.copyfileobj and the close of the zip; after a clash the content
\* is what two writers left
dl_copy(p) ==
    /\ dl_proc[p].pc = "copy"
    /\ LET c == dl_proc[p].country
           others == \E q \in Procs \ {p} :
                        dl_proc[q].pc = "copy" /\ dl_proc[q].country = c
       IN \E z \in IF others THEN {"partial"}
                   ELSE IF dl_fs[c].clash THEN {"complete", "corrupt"}
                   ELSE {"complete"} :
             dl_fs' = [dl_fs EXCEPT ![c].zip = z,
                                    ![c].clash = IF others THEN @ ELSE FALSE]
    /\ dl_proc' = [dl_proc EXCEPT ![p].pc = "extract"]
    /\ UNCHANGED <<dl_parallel, dl_calls, dl_downloads, dl_returns>>
    /\ dlFrame

\* zipfile.ZipFile(gadm_input_file_zip): a complete zip is opened and
\* extractall starts writing the gpkg; a zip that is not complete either
\* raises BadZipFile or is read as far as it goes
dl_extract(p) ==
    /\ dl_proc[p].pc = "extract"
    /\ LET c == dl_proc[p].country
       IN \E ok \in IF dl_fs[c].zip = "complete" THEN {TRUE} ELSE BOOLEAN :
             IF ok
             THEN /\ dl_fs' = [dl_fs EXCEPT ![c].gpkg = "partial"]
                  /\ dl_proc' = [dl_proc EXCEPT ![p].pc = "extracting"]
             ELSE /\ dl_fs' = dl_fs
                  /\ dl_proc' = [dl_proc EXCEPT ![p].pc = "raised"]
    /\ UNCHANGED <<dl_parallel, dl_calls, dl_downloads, dl_returns>>
    /\ dlFrame

\* extractall ends
dl_extracted(p) ==
    /\ dl_proc[p].pc = "extracting"
    /\ LET c == dl_proc[p].country
           others == \E q \in Procs \ {p} :
                        dl_proc[q].pc = "extracting" /\ dl_proc[q].country = c
       IN dl_fs' = [dl_fs EXCEPT ![c].gpkg =
                       IF others THEN "partial" ELSE "complete"]
    /\ dl_proc' = [dl_proc EXCEPT ![p].pc = "return", ![p].extracted = TRUE]
    /\ UNCHANGED <<dl_parallel, dl_calls, dl_downloads, dl_returns>>
    /\ dlFrame

\* return gadm_input_file_gpkg, gadm_filename
dl_return(p) ==
    /\ dl_proc[p].pc = "return"
    /\ LET c == dl_proc[p].country
       IN dl_returns' = dl_returns \cup
             {[country |-> c,
               value |-> <<gadm_input_file_gpkg(c), gadm_filename(c)>>]}
    /\ dl_proc' = [dl_proc EXCEPT ![p].pc = "read"]
    /\ UNCHANGED <<dl_fs, dl_parallel, dl_calls, dl_downloads>>
    /\ dlFrame

\* get_gadm_layer opens the file returned: fiona.listlayers, gpd.read_file
gl_read(p) ==
    /\ dl_proc[p].pc = "read"
    /\ dl_proc' = [dl_proc EXCEPT ![p].pc = "reading"]
    /\ UNCHANGED <<dl_fs, dl_parallel, dl_calls, dl_downloads, dl_returns>>
    /\ dlFrame

gl_read_end(p) ==
    /\ dl_proc[p].pc = "reading"
    /\ dl_proc' = [dl_proc EXCEPT ![p].pc = "done"]
    /\ UNCHANGED <<dl_fs, dl_parallel, dl_calls, dl_downloads, dl_returns>>
    /\ dlFrame

\* the disk before the first call: per country nothing, or the zip and
\* the gpkg of an earlier run
DiskPool ==
    [DlCountries -> {[zip |-> "absent", gpkg |-> "absent", clash |-> FALSE],
                     [zip |-> "complete", gpkg |-> "complete", clash |-> FALSE]}]

IdleProc ==
    [pc |-> "idle", country |-> <<>>, update |-> FALSE, existed |-> FALSE,
     downloaded |-> FALSE, extracted |-> FALSE]

(***************************************************************************)
(* _helpers.py, locate_bus, from its entry to the scope filter: how the    *)
(* region table is obtained and which column is matched against co.  The   *)
(* table is the sequence of its codes, each a sequence of characters.      *)
(***************************************************************************)
MaxRows == 3

Letters ==
    {"A", "B", "C", "D", "E", "F", "G", "H", "I", "J", "K", "L", "M", "N",
     "O", "P", "Q", "R", "S", "T", "U", "V", "W", "X", "Y", "Z"}

\* str.isalpha
isalpha(t) == t # <<>> /\ \A i \in DOMAIN t : t[i] \in Letters

\* name[:3] and name[3:]
First3(name) == SubSeq(name, 1, Min2(3, Len(name)))

From3(name) == SubSeq(name, 4, Len(name))

\* lambda name: three_2_two_digits_country(name[:3]) + name[3:]
RewritePrefix(name) ==
    three_2_two_digits_country(First3(name)) \o From3(name)

\* the GADM_ID branch: the first row decides, then every row is rewritten
LoadGadmFile(raw) ==
    IF raw = <<>> THEN [kind |-> "raise", error |-> "KeyError"]
    ELSE [kind |-> "table", col |-> "GADM_ID",
          ids |-> IF isalpha(First3(raw[1]))
                  THEN [i \in DOMAIN raw |-> RewritePrefix(raw[i])]
                  ELSE raw]

\* get_gadm_layer(co, gadm_level): co, a string, is iterated character by
\* character as country_list; the download for a one-letter code fails,
\* and were the file there, pd.concat([geodf_list, geodf_temp]) with the
\* list geodf_list raises
LoadLayer(scope) ==
    {[kind |-> "raise", error |-> e] : e \in {"BadZipFile", "TypeError"}}

\* gdf[gdf[col].str.contains(co)]
WithCandidates(t, scope) ==
    IF t.kind = "raise" THEN [kind |-> "raise", error |-> t.error, col |-> "",
                              ids |-> <<>>, cands |-> <<>>]
    ELSE [kind |-> "table", error |-> "", col |-> t.col, ids |-> t.ids,
          cands |-> SelectSeq(t.ids, LAMBDA id : StrContains(id, scope))]

locate_bus_load ==
    /\ ld_out.kind = "start"
    /\ \E t \in CASE ld_way = "name_file" ->
                       {[kind |-> "table", col |-> "name", ids |-> ld_raw]}
                  [] ld_way = "file_without_GADM_ID" ->
                       {[kind |-> "table", col |-> "name", ids |-> ld_raw]}
                  [] ld_way = "file_with_GADM_ID" -> {LoadGadmFile(ld_raw)}
                  [] ld_way = "layer" -> LoadLayer(ld_co) :
          ld_out' = WithCandidates(t, ld_co)
    /\ UNCHANGED <<ld_way, ld_raw, ld_co>>
    /\ UNCHANGED <<locVars, topoVars, effVars, countryVars, gadmVars,
                   storeVars, naturaVars, nameVars, dlVars, mainVars>>

\* codes with 3-letter and with 2-letter country prefixes; a table uses
\* one form throughout
Codes3 ==
    {<<"N", "G", "A", ".", "1">>, <<"S", "E", "N", ".", "1">>,
     <<"S", "E", "N", ".", "2">>, <<"G", "M", "B", ".", "1">>}

Codes2 ==
    {<<"N", "G", ".", "1">>, <<"S", "N", ".", "1">>, <<"S", "N", ".", "2">>}

(***************************************************************************)
(* add_extra_components.py: attach_storageunits, attach_hydrogen_pipelines *)
(* and the sequence of the script.  The network is the one of              *)
(* attach_stores, with its lines and storage units.                        *)
(***************************************************************************)
MaxPipeLines == 2

\* " " + carrier
CarrierSuffix(c) == IF c = "H2" THEN bus_suffix ELSE battery_suffix

\* for carrier in carriers: n.madd("StorageUnit", buses_i, " " + carrier, ...)
RECURSIVE StorageUnitsOf(_, _)
StorageUnitsOf(buses_i, carriers) ==
    IF carriers = <<>> THEN <<>>
    ELSE [i \in DOMAIN buses_i |->
             [name |-> buses_i[i] \o CarrierSuffix(Head(carriers)),
              bus |-> buses_i[i], carrier |-> Head(carriers)]]
         \o StorageUnitsOf(buses_i, Tail(carriers))

attach_storageunits ==
    /\ su_pc = "start"
    /\ n_storage_units' =
          madd(n_storage_units,
               StorageUnitsOf([i \in DOMAIN n_buses |-> n_buses[i].name],
                              ext_storage_units))
    /\ su_pc' = "done"
    /\ UNCHANGED <<n_lines, ext_storage_units, ext_links, pipe_config, hp_ret>>
    /\ UNCHANGED <<locVars, topoVars, effVars, countryVars, gadmVars, storeVars,
                   naturaVars, nameVars, dlVars, loadVars>>

\* code points of the characters of bus names, for the order of strings
Ord ==
    (" " :> 32) @@ ("2" :> 50) @@ ("H" :> 72) @@ ("a" :> 97) @@ ("b" :> 98)
    @@ ("c" :> 99)

StrLess(a, b) ==
    LexLess([i \in DOMAIN a |-> Ord[a[i]]], [i \in DOMAIN b |-> Ord[b[i]]])

\* the pair of buses as the row has it
SortedPair_asis(c) == <<c.bus0, c.bus1>>

\* np.sort(candidates[["bus0", "bus1"]]): each row's two names in order
SortedPair(c) ==
    IF StrLess(c.bus1, c.bus0) THEN <<c.bus1, c.bus0>> ELSE <<c.bus0, c.bus1>>

\* pd.concat([n.lines[attrs], n.links.query('carrier=="DC"')[attrs]])
PipeCandidates(lns, lks) ==
    [i \in DOMAIN lns |->
        [bus0 |-> lns[i].bus0, bus1 |-> lns[i].bus1, length |-> lns[i].length]]
    \o LET dc == SelectSeq(lks, LAMBDA l : l.carrier = "DC")
       IN [i \in DOMAIN dc |->
              [bus0 |-> dc[i].bus0, bus1 |-> dc[i].bus1, length |-> dc[i].length]]

\* candidates[~pd.DataFrame(...).duplicated()]: the first row of each pair
RECURSIVE DropDuplicated(_, _)
DropDuplicated(cands, seen) ==
    IF cands = <<>> THEN <<>>
    ELSE IF SortedPair(Head(cands)) \in seen
         THEN DropDuplicated(Tail(cands), seen)
         ELSE <<Head(cands)>>
              \o DropDuplicated(Tail(cands), seen \cup {SortedPair(Head(cands))})

H2_pipeline == <<"H", "2", " ", "p", "i", "p", "e", "l", "i", "n", "e">>

\* the bus name without the suffix
PipelineBus_plain(b) == b

\* h2_links.bus0.values + " H2"
PipelineBus(b) == b \o bus_suffix

\* the row madd appends for one of h2_links; efficiency, bus2 and
\* efficiency2 at the values of a link that has none set
PipelineLink(c) ==
    [name |-> H2_pipeline \o <<" ">> \o c.bus0 \o <<"-">> \o c.bus1,
     bus0 |-> PipelineBus(c.bus0), bus1 |-> PipelineBus(c.bus1),
     carrier |-> "H2 pipeline", length |-> c.length,
     efficiency |-> Whole(1), bus2 |-> NoBus, efficiency2 |-> NaN]

\* "H2 pipeline" in ext_carriers.get("Link", [])
WantsPipelines(link_carriers) == "H2 pipeline" \in link_carriers

\* the assertion never failing
HasH2Store_any(as_stores) == TRUE

\* assert "H2" in as_stores
HasH2Store(as_stores) == "H2" \in as_stores

attach_hydrogen_pipelines ==
    /\ hp_ret.kind = "start"
    /\ IF ~WantsPipelines(ext_links)
       THEN /\ hp_ret' = [kind |-> "return"]
            /\ s_links' = s_links
       ELSE IF ~HasH2Store(ext_stores)
       THEN /\ hp_ret' = [kind |-> "raise"]
            /\ s_links' = s_links
       ELSE LET h2_links == DropDuplicated(PipeCandidates(n_lines, s_links), {})
                added == madd(s_links,
                              [i \in DOMAIN h2_links |-> PipelineLink(h2_links[i])])
            IN /\ s_links' = [i \in DOMAIN added |->
                                 IF IsCarrier(added[i], "H2 pipeline")
                                 THEN SetLink(added[i], pipe_config)
                                 ELSE added[i]]
               /\ hp_ret' = [kind |-> "return"]
    /\ UNCHANGED <<n_buses, n_stores, n_generators, ext_stores, csp_advanced,
                   st_pc>>
    /\ UNCHANGED <<n_lines, n_storage_units, ext_storage_units, ext_links,
                   pipe_config, su_pc>>
    /\ UNCHANGED <<locVars, topoVars, effVars, countryVars, gadmVars,
                   naturaVars, nameVars, dlVars, loadVars>>

\* the script: attach_storageunits; attach_stores; attach_hydrogen_pipelines
main_stores == su_pc = "done" /\ attach_stores

main_pipelines == st_pc = "done" /\ attach_hydrogen_pipelines

\* the network read by the script: electrical buses, lines and at most one
\* DC link between them
NamesIn(table) == {table[i].name : i \in DOMAIN table}

MainBusTables ==
    {t \in BusTables : \A i \in DOMAIN t : t[i].name \in {<<"a">>, <<"b">>}}

EdgePool(buses) ==
    {e \in [bus0 : NamesIn(buses), bus1 : NamesIn(buses), length : {1000, 2000}] :
        e.bus0 # e.bus1}

MainLines(buses) ==
    {[i \in DOMAIN es |->
         [name |-> <<"L">>, bus0 |-> es[i].bus0, bus1 |-> es[i].bus1,
          length |-> es[i].length]] :
        es \in SeqsUpTo(EdgePool(buses), MaxPipeLines)}

MainLinks(buses) ==
    {<<>>} \cup
    {<< [name |-> <<"l">>, bus0 |-> e.bus0, bus1 |-> e.bus1, carrier |-> "DC",
         length |-> e.length] >> : e \in EdgePool(buses)}

PipeConfigs ==
    {<<>>,
     [efficiency_per_1000km |-> Frac(95, 100),
      compression_per_1000km |-> Frac(1, 100)]}

(***************************************************************************)
(* Idle values of the components a specification does not exercise         *)
(***************************************************************************)
LocIdle ==
    /\ gdf = <<>> /\ co = <<>> /\ coords = [x |-> 0, y |-> 0] /\ lb_ret = NoRet

TopoIdle ==
    /\ lines = <<>> /\ links = <<>> /\ uf_column = FALSE /\ topo = <<>>
    /\ topo_pc = "idle" /\ bidirectional = TRUE

EffIdle ==
    /\ n_links = <<>> /\ n_cols = {} /\ config = <<>> /\ carrier = ""
    /\ eff_pc = "idle"

CountryIdle ==
    /\ cc_in = <<>> /\ cc_two = <<>> /\ cc_three = <<>> /\ cc_pc = "idle"
    /\ cl_input = <<>> /\ iso_coding = TRUE /\ cl_result = <<>> /\ cl_pc = "idle"

GadmIdle ==
    /\ country_layers = <<>> /\ req_layer_id = 0 /\ layer_id = 0
    /\ code_layers = <<>>

StoreIdle ==
    /\ n_buses = <<>> /\ n_stores = <<>> /\ s_links = <<>> /\ n_generators = <<>>
    /\ ext_stores = {} /\ csp_advanced = FALSE /\ st_pc = "idle"

NaturaIdle ==
    /\ shp_files = 0 /\ shapes = <<>>
    /\ unified = [kind |-> "idle", error |-> "", members |-> <<>>]

NameIdle ==
    /\ nm_code = <<>> /\ nm_string = "" /\ no_comma = FALSE
    /\ remove_start_words = <<>> /\ nm_out = <<>> /\ nm_pc = "idle"

DlIdle ==
    /\ dl_fs = <<>> /\ dl_proc = <<>> /\ dl_parallel = FALSE
    /\ dl_calls = 0 /\ dl_downloads = 0 /\ dl_returns = {}

LoadIdle ==
    /\ ld_way = "" /\ ld_raw = <<>> /\ ld_co = <<>> /\ ld_out = [kind |-> "idle"]

MainIdle ==
    /\ n_lines = <<>> /\ n_storage_units = <<>> /\ ext_storage_units = <<>>
    /\ ext_links = {} /\ pipe_config = <<>> /\ su_pc = "idle"
    /\ hp_ret = [kind |-> "idle"]

RestIdle == NameIdle /\ DlIdle /\ LoadIdle /\ MainIdle

InitLocate ==
    /\ gdf \in SeqsUpTo(RegionRows, MaxRegions)
    /\ co \in ScopePool
    /\ coords \in PointPool
    /\ lb_ret = NoRet
    /\ TopoIdle /\ EffIdle /\ CountryIdle /\ GadmIdle /\ StoreIdle /\ NaturaIdle /\ RestIdle

NextLocate == locate_bus

SpecLocate == InitLocate /\ [][NextLocate]_vars

InitTopology ==
    /\ uf_column \in BOOLEAN
    /\ lines \in SeqsUpTo(LinePool, MaxEdges)
    /\ links \in SeqsUpTo(LinkPool(IF uf_column THEN {NaN, Whole(1)} ELSE {NaN}),
                          MaxEdges - Len(lines))
    /\ topo = <<>>
    /\ topo_pc = "start"
    /\ bidirectional = TRUE
    /\ LocIdle /\ EffIdle /\ CountryIdle /\ GadmIdle /\ StoreIdle /\ NaturaIdle /\ RestIdle

NextTopology == \E bidir \in BOOLEAN : create_network_topology(bidir)

SpecTopology == InitTopology /\ [][NextTopology]_vars

InitEff ==
    /\ n_cols \in {{}, {"bus2", "efficiency2"}}
    /\ n_links \in SeqsUpTo(NLinkPool(n_cols), MaxNLinks)
    /\ config \in ConfigPool
    /\ carrier = "H2 pipeline"
    /\ eff_pc = "start"
    /\ LocIdle /\ TopoIdle /\ CountryIdle /\ GadmIdle /\ StoreIdle /\ NaturaIdle /\ RestIdle

NextEff == set_length_based_efficiency

SpecEff == InitEff /\ [][NextEff]_vars

InitCountry ==
    /\ cc_in \in ThreeCodePool
    /\ cc_two = <<>> /\ cc_three = <<>> /\ cc_pc = "start"
    /\ cl_input \in SeqsUpTo(InputPool, MaxInput)
    /\ iso_coding \in BOOLEAN
    /\ cl_result = <<>> /\ cl_pc = "start"
    /\ LocIdle /\ TopoIdle /\ EffIdle /\ GadmIdle /\ StoreIdle /\ NaturaIdle /\ RestIdle

NextCountry == to_two \/ to_three \/ create_country_list

SpecCountry == InitCountry /\ [][NextCountry]_vars

InitGadm ==
    /\ country_layers \in SeqsUpTo(1..MaxLayers, MaxCountries)
    /\ req_layer_id \in (0 - MaxLayerId)..MaxLayerId
    /\ layer_id = req_layer_id
    /\ code_layers = <<>>
    /\ LocIdle /\ TopoIdle /\ EffIdle /\ CountryIdle /\ StoreIdle /\ NaturaIdle /\ RestIdle

NextGadm == get_gadm_layer

SpecGadm == InitGadm /\ [][NextGadm]_vars

InitStores ==
    /\ n_buses \in BusTables
    /\ n_stores = <<>>
    /\ s_links \in LinkTables(n_buses)
    /\ n_generators \in GeneratorTables(n_buses)
    /\ ext_stores \in SUBSET {"H2", "battery"}
    /\ csp_advanced \in BOOLEAN
    /\ st_pc = "start"
    /\ LocIdle /\ TopoIdle /\ EffIdle /\ CountryIdle /\ GadmIdle /\ NaturaIdle /\ RestIdle

NextStores == attach_stores

SpecStores == InitStores /\ [][NextStores]_vars

InitNatura ==
    /\ shp_files \in 0..MaxFiles
    /\ shapes \in IF shp_files = 0 THEN {<<>>}
                  ELSE SeqsUpTo(ShapePool, MaxShapes)
    /\ unified = [kind |-> "start", error |-> "", members |-> <<>>]
    /\ LocIdle /\ TopoIdle /\ EffIdle /\ CountryIdle /\ GadmIdle /\ StoreIdle /\ RestIdle

NextNatura == unify_protected_shape_areas

SpecNatura == InitNatura /\ [][NextNatura]_vars

InitName ==
    /\ nm_code \in NameCodePool
    /\ nm_string \in {"name_short", "name_official", "name_comma"}
    /\ no_comma \in BOOLEAN
    /\ remove_start_words \in SeqsUpTo(WordPool, MaxWords)
    /\ nm_out = <<>>
    /\ nm_pc = "start"
    /\ LocIdle /\ TopoIdle /\ EffIdle /\ CountryIdle /\ GadmIdle /\ StoreIdle
    /\ NaturaIdle /\ DlIdle /\ LoadIdle /\ MainIdle

NextName == name_country

SpecName == InitName /\ [][NextName]_vars

InitDl(par) ==
    /\ dl_fs \in DiskPool
    /\ dl_proc = [p \in Procs |-> IdleProc]
    /\ dl_parallel = par
    /\ dl_calls = 0 /\ dl_downloads = 0 /\ dl_returns = {}
    /\ LocIdle /\ TopoIdle /\ EffIdle /\ CountryIdle /\ GadmIdle /\ StoreIdle
    /\ NaturaIdle /\ NameIdle /\ LoadIdle /\ MainIdle

NextDl ==
    \E p \in Procs :
        \/ \E c \in DlCountries, u \in BOOLEAN : dl_call(p, c, u)
        \/ dl_check(p)
        \/ dl_open(p)
        \/ dl_copy(p)
        \/ dl_extract(p)
        \/ dl_extracted(p)
        \/ dl_return(p)
        \/ gl_read(p)
        \/ gl_read_end(p)

\* calls one after the other, as in the loop of get_gadm_layer
InitDownload == InitDl(FALSE)

SpecDownload == InitDownload /\ [][NextDl]_vars

\* calls that overlap
InitDownloadPar == InitDl(TRUE)

SpecDownloadPar == InitDownloadPar /\ [][NextDl]_vars

InitLoad ==
    /\ ld_way \in {"name_file", "file_without_GADM_ID", "file_with_GADM_ID",
                   "layer"}
    /\ ld_raw \in SeqsUpTo(Codes3, MaxRows) \cup SeqsUpTo(Codes2, MaxRows)
    /\ ld_co \in {<<"N", "G">>, <<"S", "N">>}
    /\ ld_out = [kind |-> "start"]
    /\ LocIdle /\ TopoIdle /\ EffIdle /\ CountryIdle /\ GadmIdle /\ StoreIdle
    /\ NaturaIdle /\ NameIdle /\ DlIdle /\ MainIdle

NextLoad == locate_bus_load

SpecLoad == InitLoad /\ [][NextLoad]_vars

InitMain ==
    /\ n_buses \in MainBusTables
    /\ n_lines \in MainLines(n_buses)
    /\ s_links \in MainLinks(n_buses)
    /\ n_stores = <<>> /\ n_generators = <<>> /\ n_storage_units = <<>>
    /\ ext_storage_units \in {<<>>, <<"H2">>, <<"H2", "battery">>}
    /\ ext_stores \in SUBSET {"H2", "battery"}
    /\ ext_links \in {{}, {"H2 pipeline"}}
    /\ csp_advanced = FALSE
    /\ pipe_config \in PipeConfigs
    /\ su_pc = "start" /\ st_pc = "start" /\ hp_ret = [kind |-> "start"]
    /\ LocIdle /\ TopoIdle /\ EffIdle /\ CountryIdle /\ GadmIdle /\ NaturaIdle
    /\ NameIdle /\ DlIdle /\ LoadIdle

NextMain == attach_storageunits \/ main_stores \/ main_pipelines

SpecMain == InitMain /\ [][NextMain]_vars

(***************************************************************************)
(* Claims about locate_bus (checked under SpecLocate)                      *)
(***************************************************************************)
LocDone == lb_ret.kind # "none"

IsCandidate(i) == StrContains(gdf[i].id, co)

CandidateIdx == {i \in 1..Len(gdf) : IsCandidate(i)}

InsideIdx == {i \in CandidateIdx : GeomContains(gdf[i].geometry, coords)}

Dist2(i) == Distance2(gdf[i].geometry, coords)

\* C1: a point strictly inside exactly one candidate region, and inside no
\* other candidate, is assigned that region's identifier.
C1_ContainmentPriority ==
    LocDone =>
        \A i \in CandidateIdx :
            InsideIdx = {i} => lb_ret = Return(gdf[i].id)

\* C1 witness: one candidate contains the point, a region of another scope
\* contains it too, and the candidate's identifier was returned.
C1_Witness ==
    /\ LocDone
    /\ Cardinality(CandidateIdx) >= 2
    /\ \E i \in CandidateIdx :
          /\ InsideIdx = {i}
          /\ lb_ret = Return(gdf[i].id)
          /\ \E j \in (1..Len(gdf)) \ CandidateIdx :
                /\ GeomContains(gdf[j].geometry, coords)
                /\ gdf[j].id # gdf[i].id

\* C2: when no candidate region contains the point, an identifier that is
\* returned belongs to a candidate region at minimal distance from the point.
C2_NearestFallback ==
    (lb_ret.kind = "return" /\ InsideIdx = {}) =>
        \E i \in CandidateIdx :
            /\ gdf[i].id = lb_ret.value
            /\ \A j \in CandidateIdx : Dist2(i) <= Dist2(j)

\* C2 witness: three candidates at distances 3, 2 and 1 (squares 9, 4, 1),
\* in that order, and the distance-1 region was returned.
C2_Witness ==
    /\ Len(gdf) = 3
    /\ CandidateIdx = {1, 2, 3}
    /\ Dist2(1) = 9 /\ Dist2(2) = 4 /\ Dist2(3) = 1
    /\ gdf[3].id # gdf[1].id /\ gdf[3].id # gdf[2].id
    /\ lb_ret = Return(gdf[3].id)

\* C3: with zero candidate regions the call ends in a descriptive
\* "no candidate region" error and returns no identifier.
C3_EmptyScopeDescriptiveError ==
    (LocDone /\ CandidateIdx = {}) =>
        /\ lb_ret.kind # "return"
        /\ lb_ret.msg = "no candidate region"

\* C4: when one or more candidate regions contain the point, the call
\* returns the identifier of the first containing candidate and does not raise.
C4_FirstContainingReturned ==
    (LocDone /\ InsideIdx # {}) =>
        \E i \in InsideIdx :
            /\ \A j \in InsideIdx : i <= j
            /\ lb_ret = Return(gdf[i].id)

(***************************************************************************)
(* Claims about create_network_topology (checked under SpecTopology)       *)
(***************************************************************************)
TopoDone == topo_pc = "done"

DCIdx == {k \in 1..Len(links) : links[k].carrier = "DC"}

LinePair(k) == {lines[k].bus0, lines[k].bus1}

LinkPair(k) == {links[k].bus0, links[k].bus1}

RowPair(i) == {topo[i].bus0, topo[i].bus1}

\* the unordered endpoint pairs occurring among the lines and DC links
PairSet == {LinePair(k) : k \in 1..Len(lines)} \cup {LinkPair(k) : k \in DCIdx}

RowsOf(P) == {i \in 1..Len(topo) : RowPair(i) = P}

Smaller(P) == CHOOSE a \in P : \A b \in P : a = b \/ LexLess(a, b)

Larger(P) == CHOOSE b \in P : \A a \in P : a = b \/ LexLess(a, b)

\* C5 (as claimed): with bidirectional=True every row has bus0 < bus1.
C5_StrictOrder ==
    (TopoDone /\ bidirectional) =>
        \A i \in 1..Len(topo) : LexLess(topo[i].bus0, topo[i].bus1)

\* C5 (amended): with bidirectional=True every row has bus0 <= bus1: bus0 < bus1
\* when the endpoints differ, bus0 = bus1 only for the row of a raw edge whose
\* two endpoints are the same bus.
C5_WeakOrder ==
    (TopoDone /\ bidirectional) =>
        \A i \in 1..Len(topo) :
            /\ topo[i].bus0 # topo[i].bus1 => LexLess(topo[i].bus0, topo[i].bus1)
            /\ topo[i].bus0 = topo[i].bus1 => {topo[i].bus0} \in PairSet

\* C5 witness: a raw line given as (bus0 > bus1) was swapped into its row and
\* a self-loop produced a row with equal endpoints.
C5_Witness ==
    /\ TopoDone /\ bidirectional
    /\ \E k \in 1..Len(lines) : LexLess(lines[k].bus1, lines[k].bus0)
    /\ \A k \in 1..Len(lines) : ~LexLess(lines[k].bus0, lines[k].bus1)
    /\ \E i \in 1..Len(topo) : LexLess(topo[i].bus0, topo[i].bus1)
    /\ \E i \in 1..Len(topo) : topo[i].bus0 = topo[i].bus1

\* C6: with bidirectional=True there is exactly one row per unordered endpoint
\* pair of the lines and DC links, with identifier prefix + a + connector + b,
\* a the lexicographically smaller endpoint.
C6_OneRowPerPair ==
    (TopoDone /\ bidirectional) =>
        /\ Len(topo) = Cardinality(PairSet)
        /\ \A P \in PairSet :
              /\ Cardinality(RowsOf(P)) = 1
              /\ \A i \in RowsOf(P) :
                    topo[i].index = prefix \o Smaller(P) \o connector \o Larger(P)

\* C6 witness: edges ("10","9",10) and ("9","10",10) gave the single row
\* "P10<>9" of length 10.
C6_Witness ==
    /\ TopoDone /\ bidirectional
    /\ links = <<>>
    /\ lines = << [bus0 |-> <<49, 48>>, bus1 |-> <<57>>, length |-> Whole(10)],
                  [bus0 |-> <<57>>, bus1 |-> <<49, 48>>, length |-> Whole(10)] >>
    /\ Len(topo) = 1
    /\ topo[1].index = <<80, 49, 48, 60, 62, 57>>
    /\ topo[1].length = Whole(10)

IsReverseOf(r, c) ==
    /\ r.bus0 = c.bus1 /\ r.bus1 = c.bus0
    /\ r.index = prefix \o c.bus1 \o connector \o c.bus0
    /\ r.length = c.length
    /\ r.underwater_fraction = c.underwater_fraction

IsCanonical(c, P) ==
    /\ c.bus0 = Smaller(P) /\ c.bus1 = Larger(P)
    /\ c.index = prefix \o Smaller(P) \o connector \o Larger(P)

\* C7 (as claimed): with bidirectional=False every connection has exactly two
\* distinct rows, the canonical one and its reversed copy (identifier
\* recomputed, attributes equal); twice the rows; no identifier twice.
C7_TwoDistinctRows ==
    (TopoDone /\ ~bidirectional) =>
        /\ Len(topo) = 2 * Cardinality(PairSet)
        /\ \A P \in PairSet :
              /\ Cardinality(RowsOf(P)) = 2
              /\ \E i, j \in RowsOf(P) :
                    /\ topo[i] # topo[j]
                    /\ IsCanonical(topo[i], P)
                    /\ IsReverseOf(topo[j], topo[i])
        /\ \A i, j \in 1..Len(topo) : i # j => topo[i].index # topo[j].index

\* C7 (amended): with bidirectional=False there are twice as many rows, two
\* per connection: the canonical row and its reversed copy (identifier
\* recomputed, attributes equal).  The two are distinct rows with distinct
\* identifiers when the endpoints differ; for a connection from a bus to
\* itself they are the same row twice, under one identifier.  No identifier
\* is shared otherwise.
C7_TwoRowsPerPair ==
    (TopoDone /\ ~bidirectional) =>
        /\ Len(topo) = 2 * Cardinality(PairSet)
        /\ \A P \in PairSet :
              /\ Cardinality(RowsOf(P)) = 2
              /\ \E i, j \in RowsOf(P) :
                    /\ i # j
                    /\ IsCanonical(topo[i], P)
                    /\ IsReverseOf(topo[j], topo[i])
                    /\ Cardinality(P) = 2 => topo[i].index # topo[j].index
                    /\ Cardinality(P) = 1 => topo[i] = topo[j]
        /\ \A i, j \in 1..Len(topo) :
              (i # j /\ topo[i].index = topo[j].index) =>
                  topo[i].bus0 = topo[i].bus1 /\ RowPair(i) = RowPair(j)

\* C7 witness: a connection between two different buses and a self-loop,
\* four rows, the reversed copy of the first carrying "P9<>10".
C7_Witness ==
    /\ TopoDone /\ ~bidirectional
    /\ Len(topo) = 4
    /\ \E P \in PairSet : Cardinality(P) = 2
    /\ \E P \in PairSet : Cardinality(P) = 1
    /\ \E i \in 1..Len(topo) : topo[i].index = <<80, 57, 60, 62, 49, 48>>
    /\ \E i \in 1..Len(topo) : topo[i].index = <<80, 49, 48, 60, 62, 57>>

RECURSIVE SumOver(_, _)
SumOver(S, f) ==
    IF S = {} THEN 0
    ELSE LET k == CHOOSE x \in S : TRUE
         IN  f[k] + SumOver(S \ {k}, f)

\* underwater_fraction of raw link k, an absent one (column missing, or NaN)
\* counting as 0
LinkUF(k) ==
    IF uf_column /\ ~IsNaN(links[k].underwater_fraction)
    THEN links[k].underwater_fraction.n ELSE 0

\* C8: the call leaves in every row the arithmetic mean of length and of
\* underwater_fraction over the raw lines and DC links of the row's endpoint
\* pair (absent underwater_fraction = 0); every row has such an edge, so
\* links of another carrier contribute to no row.
C8_MeanOfGroup ==
    [][ (topo_pc = "start" /\ topo_pc' = "done") =>
          \A i \in 1..Len(topo') :
            LET P == {topo'[i].bus0, topo'[i].bus1}
                gl == {k \in 1..Len(lines) : LinePair(k) = P}
                gk == {k \in DCIdx : LinkPair(k) = P}
                cnt == Cardinality(gl) + Cardinality(gk)
                sumLen == SumOver(gl, [k \in gl |-> lines[k].length.n])
                        + SumOver(gk, [k \in gk |-> links[k].length.n])
                sumUF == SumOver(gk, [k \in gk |-> LinkUF(k)])
            IN  /\ cnt > 0
                /\ topo'[i].length.d > 0
                /\ topo'[i].length.n * cnt = sumLen * topo'[i].length.d
                /\ topo'[i].underwater_fraction.d > 0
                /\ topo'[i].underwater_fraction.n * cnt
                       = sumUF * topo'[i].underwater_fraction.d
      ]_vars

\* C8 witness: a line of length 10 and a DC link of length 20 with
\* underwater_fraction 1 share a row of length 15 and underwater_fraction 1/2,
\* while a link of another carrier produced no row.
C8_Witness ==
    /\ TopoDone
    /\ Len(lines) = 1 /\ lines[1].length = Whole(10)
    /\ Len(links) = 2
    /\ \E k \in DCIdx : LinkPair(k) = LinePair(1)
                        /\ links[k].underwater_fraction = Whole(1)
    /\ \E k \in (1..Len(links)) \ DCIdx : LinkPair(k) # LinePair(1)
    /\ Len(topo) = IF bidirectional THEN 1 ELSE 2
    /\ topo[1].length = Whole(15)
    /\ topo[1].underwater_fraction = [n |-> 1, d |-> 2]

(***************************************************************************)
(* Claims about set_length_based_efficiency (checked under SpecEff)        *)
(***************************************************************************)
EffDone == eff_pc \in {"done", "again"}

TargetIdx == {i \in 1..Len(n_links) : n_links[i].carrier = carrier}

CfgStatic == Get(config, "efficiency_static", Whole(1))

CfgPer1000 == Get(config, "efficiency_per_1000km", Whole(1))

RECURSIVE IntPow(_, _)
IntPow(b, k) == IF k = 0 THEN 1 ELSE b * IntPow(b, k - 1)

\* e = efficiency_static * efficiency_per_1000km ^ k, by cross-multiplication
IsDecayed(e, k) ==
    /\ e.d > 0
    /\ e.n * (CfgStatic.d * IntPow(CfgPer1000.d, k))
           = e.d * (CfgStatic.n * IntPow(CfgPer1000.n, k))

\* C9: after the call every link of the carrier has
\* efficiency = efficiency_static * efficiency_per_1000km ^ (length / 1000);
\* a link of length 0 has exactly efficiency_static.
C9_EfficiencyFormula ==
    EffDone =>
        \A i \in TargetIdx :
            /\ n_links[i].length % 1000 = 0
            /\ IsDecayed(n_links[i].efficiency, n_links[i].length \div 1000)
            /\ n_links[i].length = 0 => n_links[i].efficiency = CfgStatic

\* C9 witness: coefficients 0.98 and 0.95; a link of length 2000 has
\* 0.98 * 0.95 * 0.95 = 17689/20000, one of length 0 has 0.98 = 49/50.
C9_Witness ==
    /\ EffDone
    /\ CfgStatic = [n |-> 49, d |-> 50]
    /\ CfgPer1000 = [n |-> 19, d |-> 20]
    /\ \E i \in TargetIdx : /\ n_links[i].length = 2000
                            /\ n_links[i].efficiency = [n |-> 17689, d |-> 20000]
    /\ \E i \in TargetIdx : /\ n_links[i].length = 0
                            /\ n_links[i].efficiency = [n |-> 49, d |-> 50]

\* C10 (as claimed): whenever efficiency_per_1000km < 1 a longer link of the
\* carrier gets a strictly lower efficiency; whenever it equals 1 every link
\* of the carrier gets efficiency_static.
C10_StrictDecay ==
    EffDone =>
        /\ FracLess(CfgPer1000, Whole(1)) =>
              \A i, j \in TargetIdx :
                  n_links[i].length < n_links[j].length =>
                      FracLess(n_links[j].efficiency, n_links[i].efficiency)
        /\ CfgPer1000 = Whole(1) =>
              \A i \in TargetIdx : n_links[i].efficiency = CfgStatic

\* C10 (amended): whenever 0 < efficiency_per_1000km < 1 and
\* efficiency_static > 0 a longer link of the carrier gets a strictly lower
\* efficiency; whenever efficiency_per_1000km equals 1 every link of the
\* carrier gets efficiency_static.
C10_StrictDecayPositive ==
    EffDone =>
        /\ ( /\ FracLess(Whole(0), CfgPer1000)
             /\ FracLess(CfgPer1000, Whole(1))
             /\ FracLess(Whole(0), CfgStatic) ) =>
              \A i, j \in TargetIdx :
                  n_links[i].length < n_links[j].length =>
                      FracLess(n_links[j].efficiency, n_links[i].efficiency)
        /\ CfgPer1000 = Whole(1) =>
              \A i \in TargetIdx : n_links[i].efficiency = CfgStatic

\* C10 witness: decay factor 0.95, static factor 0.98, two links of the
\* carrier of lengths 1000 and 2000, the longer one with the lower efficiency.
C10_Witness ==
    /\ EffDone
    /\ CfgStatic = [n |-> 49, d |-> 50]
    /\ CfgPer1000 = [n |-> 19, d |-> 20]
    /\ \E i, j \in TargetIdx :
          /\ n_links[i].length = 1000 /\ n_links[j].length = 2000
          /\ FracLess(n_links[j].efficiency, n_links[i].efficiency)

\* one call of set_length_based_efficiency is taken
EffStep == eff_pc \in {"start", "done"} /\ eff_pc' # eff_pc

HasKey(k) == k \in DOMAIN config

\* compression_per_1000km is 0, absent or otherwise not positive
CompressionNotPositive ==
    HasKey("compression_per_1000km") => config["compression_per_1000km"].n <= 0

SecondaryUnchanged ==
    /\ n_cols' = n_cols
    /\ Len(n_links') = Len(n_links)
    /\ \A i \in 1..Len(n_links) :
          /\ n_links'[i].bus2 = n_links[i].bus2
          /\ n_links'[i].efficiency2 = n_links[i].efficiency2

\* C11: with compression_per_1000km 0, absent or otherwise not positive, a
\* call leaves bus2 and efficiency2 of every link, and the presence of these
\* columns, as they were.
C11_NoCompressionNoSecondary ==
    [][(EffStep /\ CompressionNotPositive) => SecondaryUnchanged]_vars

\* C11 witness: coefficient 0 given explicitly, no bus2/efficiency2 columns,
\* and a link of the carrier of length 1000 still without bus2, efficiency2.
C11_Witness ==
    /\ eff_pc = "done"
    /\ HasKey("compression_per_1000km")
    /\ config["compression_per_1000km"] = Whole(0)
    /\ n_cols = {}
    /\ \E i \in TargetIdx :
          /\ n_links[i].length = 1000
          /\ n_links[i].bus2 = NoBus /\ n_links[i].efficiency2 = NaN

EndsWith(s, suf) ==
    Len(s) >= Len(suf) /\ \A k \in 1..Len(suf) : s[Len(s) - Len(suf) + k] = suf[k]

\* C12: with a positive compression_per_1000km every link of the carrier ends
\* with bus2 = bus0 without the trailing bus_suffix (bus0 itself when it does
\* not end with it) and efficiency2 = -compression_per_1000km * length / 1000.
C12_CompressionDraw ==
    (EffDone /\ ~CompressionNotPositive) =>
        \A i \in TargetIdx :
            LET l == n_links[i]
                c == config["compression_per_1000km"]
            IN  /\ EndsWith(l.bus0, <<" ", "H", "2">>)
                       => l.bus2 \o <<" ", "H", "2">> = l.bus0
                /\ ~EndsWith(l.bus0, <<" ", "H", "2">>) => l.bus2 = l.bus0
                /\ l.efficiency2.d > 0
                /\ l.efficiency2.n * c.d * 1000 = -(c.n * l.length) * l.efficiency2.d
                /\ {"bus2", "efficiency2"} \subseteq n_cols

\* C12 witness: coefficient 0.01; a link "A H2" of length 1000 has bus2 "A"
\* and efficiency2 -1/100, a link "B" has bus2 "B".
C12_Witness ==
    /\ eff_pc = "done"
    /\ HasKey("compression_per_1000km")
    /\ config["compression_per_1000km"] = [n |-> 1, d |-> 100]
    /\ \E i \in TargetIdx :
          /\ n_links[i].bus0 = <<"A", " ", "H", "2">> /\ n_links[i].length = 1000
          /\ n_links[i].bus2 = <<"A">>
          /\ n_links[i].efficiency2 = [n |-> -1, d |-> 100]
    /\ \E i \in TargetIdx : n_links[i].bus0 = <<"B">> /\ n_links[i].bus2 = <<"B">>

\* C13: a call changes only links of the target carrier: every other link
\* keeps all its attributes, and no link is added or removed.
C13_OtherCarriersUntouched ==
    [][EffStep =>
          /\ Len(n_links') = Len(n_links)
          /\ \A i \in 1..Len(n_links) :
                /\ n_links[i].carrier # carrier => n_links'[i] = n_links[i]
                /\ n_links'[i].carrier = n_links[i].carrier
                /\ n_links'[i].bus0 = n_links[i].bus0
                /\ n_links'[i].length = n_links[i].length
      ]_vars

\* C13 witness: a compressing call has set bus2 of a link of the carrier while
\* a DC link still has the efficiency 1/2, bus2 "C" and efficiency2 it had.
C13_Witness ==
    /\ eff_pc = "done"
    /\ ~CompressionNotPositive
    /\ CfgStatic = [n |-> 49, d |-> 50]
    /\ \E i \in TargetIdx : n_links[i].bus2 = <<"A">>
    /\ \E i \in (1..Len(n_links)) \ TargetIdx :
          /\ n_links[i].length = 1000
          /\ n_links[i].efficiency = [n |-> 1, d |-> 2]
          /\ n_links[i].bus2 = <<"C">>
          /\ n_links[i].efficiency2 = [n |-> -1, d |-> 50]

\* C14: a call does not fail on missing coefficients; an absent
\* efficiency_static counts as 1, an absent efficiency_per_1000km as 1, an
\* absent compression_per_1000km as 0: with all three absent every link of the
\* carrier gets efficiency 1 and no compression draw.
C14_NeutralDefaults ==
    [][EffStep =>
          /\ eff_pc' \in {"done", "again"}
          /\ \A i \in 1..Len(n_links) :
                n_links[i].carrier = carrier =>
                    LET e == n_links'[i].efficiency
                        k == n_links[i].length \div 1000
                    IN  /\ e.d > 0
                        /\ (~HasKey("efficiency_static") /\ HasKey("efficiency_per_1000km")) =>
                               e.n * IntPow(config["efficiency_per_1000km"].d, k)
                                   = e.d * IntPow(config["efficiency_per_1000km"].n, k)
                        /\ (HasKey("efficiency_static") /\ ~HasKey("efficiency_per_1000km")) =>
                               e = config["efficiency_static"]
                        /\ (~HasKey("efficiency_static") /\ ~HasKey("efficiency_per_1000km")) =>
                               e = [n |-> 1, d |-> 1]
          /\ ~HasKey("compression_per_1000km") => SecondaryUnchanged
      ]_vars

\* C14 witness: an empty configuration and a link of the carrier of length
\* 2000 with efficiency 1 and no bus2, efficiency2.
C14_Witness ==
    /\ eff_pc = "done"
    /\ DOMAIN config = {}
    /\ n_cols = {}
    /\ \E i \in TargetIdx :
          /\ n_links[i].length = 2000
          /\ n_links[i].efficiency = [n |-> 1, d |-> 1]
          /\ n_links[i].bus2 = NoBus /\ n_links[i].efficiency2 = NaN

\* C16: a second call with the same arguments leaves the link table as the
\* first call left it.
C16_Idempotent ==
    [][(eff_pc = "done" /\ eff_pc' = "again") =>
          (n_links' = n_links /\ n_cols' = n_cols)]_vars

\* C16 witness: after the second call, with decay 0.98 * 0.95^2 and a
\* compression draw on a link of length 2000.
C16_Witness ==
    /\ eff_pc = "again"
    /\ ~CompressionNotPositive
    /\ \E i \in TargetIdx :
          /\ n_links[i].length = 2000
          /\ n_links[i].efficiency = [n |-> 17689, d |-> 20000]
          /\ n_links[i].bus2 = <<"A">>
          /\ n_links[i].efficiency2 = [n |-> -1, d |-> 50]

(***************************************************************************)
(* Claims about the country codes                                          *)
(***************************************************************************)
ValidThreeCodes == {r.ISO3 : r \in CocoTable}

\* C15: for a valid three-letter code X, two_2_three_digits_country of
\* three_2_two_digits_country(X) is X again; the composite code "SEN-GMB"
\* becomes "SN-GM" and comes back as "SEN-GMB".
C15_RoundTrip ==
    /\ (cc_pc \in {"two", "done"} /\ cc_in = SEN_GMB) => cc_two = SN_GM
    /\ (cc_pc = "done" /\ cc_in \in ValidThreeCodes \cup {SEN_GMB})
          => cc_three = cc_in

C15_Witness ==
    /\ cc_pc = "done"
    /\ cc_in = SEN_GMB
    /\ cc_two = SN_GM
    /\ cc_three = SEN_GMB

NoDuplicates(s) == \A i, j \in DOMAIN s : s[i] = s[j] => i = j

\* the codes configured for a continent, a region or "Earth"
Configured(e) ==
    IF e = Earth THEN UNION {Range(world_iso[c]) : c \in DOMAIN world_iso}
    ELSE IF e \in DOMAIN world_iso THEN Range(world_iso[e])
    ELSE IF e \in DOMAIN continent_regions THEN Range(continent_regions[e])
    ELSE {e}

IsGroup(e) ==
    e = Earth \/ e \in DOMAIN world_iso \/ e \in DOMAIN continent_regions

\* the codes expected for a set of input entries
ExpectedCodes(entries, iso) ==
    {c \in UNION {Configured(e) : e \in entries} : iso => Len(c) = 2}

\* C18: create_country_list returns each code once; the codes returned
\* depend only on which entries the input has, not on how often each
\* occurs; with iso_coding every returned code has two characters; a
\* continent, a region or "Earth" in the input contributes all the codes
\* configured for it.
C18_CountryList ==
    cl_pc = "done" =>
        /\ NoDuplicates(cl_result)
        /\ Range(cl_result) = ExpectedCodes(Range(cl_input), iso_coding)
        /\ iso_coding => \A i \in DOMAIN cl_result : Len(cl_result[i]) = 2
        /\ \A e \in Range(cl_input) :
              IsGroup(e) => Configured(e) \subseteq Range(cl_result)

C18_Witness ==
    /\ cl_pc = "done"
    /\ iso_coding
    /\ ~NoDuplicates(cl_input)
    /\ TEST \in Range(cl_input)
    /\ SN_GM \in Range(cl_input)
    /\ Len(cl_result) = 2

(***************************************************************************)
(* Claims about get_gadm_layer                                             *)
(***************************************************************************)
\* C17: for a country file with k layers, a requested layer_id in 0..k-1
\* selects that layer, and a requested layer_id that is negative or at
\* least k selects the last layer k-1.
C17_LayerSelection ==
    \A i \in DOMAIN code_layers :
        LET k == country_layers[i]
        IN code_layers[i] =
              IF 0 <= req_layer_id /\ req_layer_id < k
              THEN req_layer_id ELSE k - 1

(***************************************************************************)
(* Claims about attach_stores                                              *)
(***************************************************************************)
StoresStep == st_pc = "start" /\ st_pc' = "done"

NamesOf(table) == {table[i].name : i \in DOMAIN table}

\* the rows of a table that join b and b with the suffix as the carrier's
\* storage does: one bus, one store, one link each way
StorageOf(b, suf, car, inCar, outCar, busesA, storesA, linksA) ==
    /\ Cardinality({i \in DOMAIN busesA : busesA[i].name = b \o suf}) = 1
    /\ \A i \in DOMAIN busesA :
          busesA[i].name = b \o suf => busesA[i].carrier = car
    /\ Cardinality({i \in DOMAIN storesA : storesA[i].bus = b \o suf}) = 1
    /\ Cardinality({i \in DOMAIN linksA :
          /\ linksA[i].carrier = inCar
          /\ linksA[i].bus0 = b
          /\ linksA[i].bus1 = b \o suf}) = 1
    /\ Cardinality({i \in DOMAIN linksA :
          /\ linksA[i].carrier = outCar
          /\ linksA[i].bus0 = b \o suf
          /\ linksA[i].bus1 = b}) = 1
    /\ Cardinality({i \in DOMAIN linksA :
          linksA[i].carrier \in {inCar, outCar}
          /\ (linksA[i].bus0 = b \o suf \/ linksA[i].bus1 = b \o suf)}) = 2

\* C19: with "H2" among the extendable Store carriers every bus b of the
\* network before the call has afterwards one new bus "b H2" of carrier
\* H2, one Store on it, one electrolysis Link from b to it and one fuel
\* cell Link from it to b; likewise with "battery", a charger Link and a
\* discharger Link; every bus the call adds is named after a bus that
\* existed before the call.
C19_StoresPerBus ==
    [][StoresStep =>
        LET before == NamesOf(n_buses)
        IN /\ "H2" \in ext_stores =>
                \A b \in before :
                    /\ b \o bus_suffix \notin before
                    /\ StorageOf(b, bus_suffix, "H2", "H2 electrolysis",
                                 "H2 fuel cell", n_buses', n_stores', s_links')
           /\ "battery" \in ext_stores =>
                \A b \in before :
                    /\ b \o battery_suffix \notin before
                    /\ StorageOf(b, battery_suffix, "battery",
                                 "battery charger", "battery discharger",
                                 n_buses', n_stores', s_links')
           /\ \A i \in DOMAIN n_buses' :
                 \/ i \in DOMAIN n_buses /\ n_buses'[i] = n_buses[i]
                 \/ \E b \in before :
                       n_buses'[i].name \in
                          {b \o bus_suffix, b \o battery_suffix, b \o csp_suffix}
    ]_vars

C19_Witness ==
    /\ st_pc = "done"
    /\ ext_stores = {"H2", "battery"}
    /\ Len(n_buses) = 6
    /\ Len(n_stores) = 4
    /\ \E i \in DOMAIN s_links :
          /\ s_links[i].carrier = "battery discharger"
          /\ s_links[i].bus0 = <<"b">> \o battery_suffix
          /\ s_links[i].bus1 = <<"b">>

(***************************************************************************)
(* Claims about unify_protected_shape_areas                                *)
(***************************************************************************)
StillInvalid(g) == ~g.null /\ ~g.is_valid /\ ~g.buffer_valid

\* C20: every invalid input geometry enters the union as its zero-width
\* buffer; when a geometry is still invalid after that repair the call
\* ends in an error and no union is built with it.
C20_RepairOrError ==
    /\ unified.kind = "union" =>
          \A i \in DOMAIN unified.members :
              ~shapes[unified.members[i].src].is_valid
                 => unified.members[i].buffered
    /\ (/\ unified.kind \notin {"idle", "start"}
        /\ \E i \in DOMAIN shapes : StillInvalid(shapes[i]))
          => unified.kind = "raise"

(***************************************************************************)
(* Claims about two_digits_2_name_country                                  *)
(***************************************************************************)
\* C23: with no_comma a name "X, Y" comes out as "Y X"; with
\* remove_start_words a name that starts with one of the words loses that
\* beginning, so that "The Democratic Republic of Congo" with the word
\* "The" comes out as exactly "Democratic Republic of Congo".
C23_NameCleanUp ==
    nm_pc = "done" =>
        LET full_name == coco_name(nm_code, nm_string)
        IN /\ (no_comma /\ full_name = Congo_comma /\ remove_start_words = <<>>)
                 => nm_out = The_Democratic_Republic_of_Congo
           /\ (no_comma /\ full_name = Congo_comma /\ remove_start_words = <<The>>)
                 => nm_out = Democratic_Republic_of_Congo

(***************************************************************************)
(* Claims about download_gadm                                              *)
(***************************************************************************)
DlPast(p) == dl_proc[p].pc \in {"return", "read", "reading", "done"}

\* the step is one of invocation p inside download_gadm
DlStepOf(p) ==
    /\ dl_proc[p].pc \notin {"idle", "done", "raised"}
    /\ dl_proc'[p] # dl_proc[p]

\* C21: a call that finds the gpkg of its country on disk, with update
\* False, sends no request and changes no file; a call that finds it
\* missing, or has update True, downloads the zip and extracts it; calls
\* for the same country code return the same path and file name.
C21_CacheBehaviour ==
    /\ [][\A p \in Procs :
            (DlStepOf(p) /\ dl_proc[p].existed /\ ~dl_proc[p].update)
               => dl_fs' = dl_fs /\ dl_downloads' = dl_downloads]_vars
    /\ [](\A p \in Procs :
            DlPast(p) =>
               /\ (dl_proc[p].existed /\ ~dl_proc[p].update)
                     => ~dl_proc[p].downloaded /\ ~dl_proc[p].extracted
               /\ (~dl_proc[p].existed \/ dl_proc[p].update)
                     => /\ dl_proc[p].downloaded /\ dl_proc[p].extracted
                        /\ dl_proc[p].pc = "return"
                              => dl_fs[dl_proc[p].country].gpkg = "complete")
    /\ [](\A a, b \in dl_returns : a.country = b.country => a.value = b.value)

C21_Witness ==
    /\ dl_calls = 3
    /\ dl_downloads = 1
    /\ \E p \in Procs :
          /\ dl_proc[p].pc = "done"
          /\ dl_proc[p].existed /\ dl_proc[p].update
          /\ dl_proc[p].downloaded /\ dl_proc[p].extracted
    /\ Cardinality(dl_returns) = 2

Writing(p) == dl_proc[p].pc \in {"copy", "extracting"}

Reading(p) == dl_proc[p].pc = "reading"

\* C22: no two invocations for the same country code are at the cache
\* files of that country at once, one of them writing or extracting.
C22_NoCacheRace ==
    \A p, q \in Procs :
        (p # q /\ dl_proc[p].pc # "idle" /\ dl_proc[q].pc # "idle"
              /\ dl_proc[p].country = dl_proc[q].country)
           => ~(Writing(p) /\ (Writing(q) \/ Reading(q)))

(***************************************************************************)
(* Claims about the loading step of locate_bus                             *)
(***************************************************************************)
\* the code with its 3-letter prefix in 2-letter form
Rewritten(id) == coco_convert(First3(id), "ISO2") \o From3(id)

\* C24: when the codes of the table have 3-letter country prefixes and co
\* is a 2-letter code, then on each way the table is obtained (file with
\* a GADM_ID column, downloaded layer) every row's code is matched in its
\* 2-letter form, so that every region of the country co is a candidate.
C24_PrefixRewrite ==
    (/\ ld_out.kind \notin {"idle", "start"}
     /\ ld_way \in {"file_with_GADM_ID", "layer"}
     /\ ld_raw # <<>>
     /\ \A i \in DOMAIN ld_raw : ld_raw[i] \in Codes3)
       => /\ ld_out.kind = "table"
          /\ ld_out.ids = [i \in DOMAIN ld_raw |-> Rewritten(ld_raw[i])]
          /\ \A i \in DOMAIN ld_raw :
                IsPrefix(ld_co, Rewritten(ld_raw[i]))
                   => \E j \in DOMAIN ld_out.cands :
                         ld_out.cands[j] = Rewritten(ld_raw[i])

(***************************************************************************)
(* Claims about attach_hydrogen_pipelines and the script                   *)
(***************************************************************************)
PipeStep == hp_ret.kind = "start" /\ hp_ret'.kind # "start"

PipeProceeds == "H2 pipeline" \in ext_links /\ "H2" \in ext_stores

\* the edges among which pipelines are drawn, lines first, then DC links
RawEdges ==
    n_lines \o SelectSeq(s_links, LAMBDA l : l.carrier = "DC")

SamePair(e, f) == {e.bus0, e.bus1} = {f.bus0, f.bus1}

IsFirstOfPair(edges, i) == \A j \in 1..(i - 1) : ~SamePair(edges[j], edges[i])

PipelinesIn(lks) == {i \in DOMAIN lks : lks[i].carrier = "H2 pipeline"}

\* C25: attach_hydrogen_pipelines adds exactly one "H2 pipeline" link per
\* unordered pair of buses among the lines and DC links: the link joins
\* "bus0 H2" and "bus1 H2" of the first edge of that pair and has that
\* edge's length.
C25_OnePipelinePerPair ==
    [][(PipeStep /\ PipeProceeds) =>
        LET edges == RawEdges
            firsts == {i \in DOMAIN edges : IsFirstOfPair(edges, i)}
        IN /\ Cardinality(PipelinesIn(s_links')) = Cardinality(firsts)
           /\ \A i \in firsts :
                 Cardinality({k \in PipelinesIn(s_links') :
                     /\ s_links'[k].bus0 = edges[i].bus0 \o bus_suffix
                     /\ s_links'[k].bus1 = edges[i].bus1 \o bus_suffix
                     /\ s_links'[k].length = edges[i].length}) = 1
    ]_vars

C25_Witness ==
    /\ hp_ret.kind = "return"
    /\ Len(n_lines) = 2
    /\ n_lines[1].bus0 = n_lines[2].bus1
    /\ n_lines[1].bus1 = n_lines[2].bus0
    /\ n_lines[1].length # n_lines[2].length
    /\ \E d \in DOMAIN s_links : s_links[d].carrier = "DC"
    /\ Cardinality(PipelinesIn(s_links)) = 1
    /\ \A k \in PipelinesIn(s_links) : s_links[k].length = n_lines[1].length

NetworkUnchanged ==
    /\ n_buses' = n_buses /\ n_stores' = n_stores /\ s_links' = s_links
    /\ n_generators' = n_generators /\ n_lines' = n_lines
    /\ n_storage_units' = n_storage_units

\* C26: without "H2 pipeline" among the extendable Link carriers the call
\* returns and leaves the network as it was; with it, but without "H2"
\* among the extendable Store carriers, the call fails on its assertion
\* and the network is as it was.
C26_Guards ==
    [][PipeStep =>
        /\ "H2 pipeline" \notin ext_links
              => hp_ret'.kind = "return" /\ NetworkUnchanged
        /\ ("H2 pipeline" \in ext_links /\ "H2" \notin ext_stores)
              => hp_ret'.kind = "raise" /\ NetworkUnchanged
    ]_vars

C26_Witness ==
    /\ hp_ret.kind = "raise"
    /\ "H2 pipeline" \in ext_links
    /\ "H2" \notin ext_stores
    /\ "battery" \in ext_stores
    /\ n_lines # <<>>
    /\ PipelinesIn(s_links) = {}

\* C27: after attach_storageunits, attach_stores and
\* attach_hydrogen_pipelines have run without error, the bus0 and bus1 of
\* every "H2 pipeline" link are buses of carrier H2 of the network, and
\* its bus2, when set, is the bus of the network that bus0 was made for.
C27_PipelineBusesExist ==
    (su_pc = "done" /\ st_pc = "done" /\ hp_ret.kind = "return") =>
        \A k \in PipelinesIn(s_links) :
            LET h2_buses == {n_buses[i].name : i \in
                               {j \in DOMAIN n_buses : n_buses[j].carrier = "H2"}}
                ac_buses == {n_buses[i].name : i \in
                               {j \in DOMAIN n_buses : n_buses[j].carrier = "AC"}}
            IN /\ s_links[k].bus0 \in h2_buses
               /\ s_links[k].bus1 \in h2_buses
               /\ s_links[k].bus2 # NoBus =>
                     /\ s_links[k].bus2 \in ac_buses
                     /\ s_links[k].bus2 \o bus_suffix = s_links[k].bus0

C27_Witness ==
    /\ su_pc = "done" /\ st_pc = "done" /\ hp_ret.kind = "return"
    /\ \E k \in PipelinesIn(s_links) :
          /\ s_links[k].bus0 = <<"b">> \o bus_suffix
          /\ s_links[k].bus1 = <<"a">> \o bus_suffix
          /\ s_links[k].bus2 = <<"b">>
          /\ s_links[k].efficiency2 = Frac(-1, 50)

====
